---- MODULE Spec2Model ----
(***************************************************************************)
(* A model of the algorithms-engine toolkit: the weighted Graph, the      *)
(* Queue / Stack / PriorityQueue containers and the four searches          *)
(* (breadth_first_search, depth_first_search, dijkstra, astar).            *)
(*                                                                         *)
(* Node values are opaque to the code (only equality and hashing are       *)
(* used, and every dict is read in insertion order), so the model names    *)
(* the nodes 1, 2, ... in the order the graph creates them.                *)
(***************************************************************************)
EXTENDS Integers, Sequences, FiniteSets, TLC

\* ---------------------------------------------------------------- bounds
MaxNodes == 5        \* node values are 1..MaxNodes
MaxBuilt == 4        \* node values passed to the graphs of Spec, SpecGraph, SpecRun
MaxCalls == 3        \* add_node / add_edge calls that build one graph (Spec)
DeepCalls == 4       \* the same for the longer builds of SpecDeep
MaxWeight == 1       \* edge weights are -MaxWeight..MaxWeight
MaxH == 1            \* heuristic values are 0..MaxH
MaxLen == 4          \* elements held by a container under test
MaxPriority == 2     \* priorities inserted into the PriorityQueue under test
MaxValue == 2        \* payloads stored in a container under test
GraphCalls == 3      \* add_node / add_edge calls of a Graph test (SpecGraph)
RunCalls == 2        \* add_node / add_edge calls before a stepped search (SpecRun)
GridSize == 3        \* rows and columns of a maze or grid (SpecMaze)
MaxOps == 6          \* insertions a container test makes (SpecContainers)
MaxTasks == 4        \* tasks of a scheduling problem (SpecSchedule)
MaxDuration == 1     \* duration of a task (SpecSchedule)
ScheduleCalls == 8   \* add_task / add_dependency calls (SpecSchedule)

Inf == 1000000       \* float('inf')
None == 0            \* Python's None (never a node value)

Values == 1..MaxNodes
Weights == (0 - MaxWeight)..MaxWeight
Payloads == 1..MaxValue
Priorities == 0..MaxPriority

\* ------------------------------------------------------- Python helpers
\* a dict is a sequence of <<key, value>> pairs in insertion order
Contains(s, v) == \E i \in 1..Len(s) : s[i] = v
\* the sequence with the elements of f (functions are only ever updated by
\* redefinition, sequences only by the Sequences operators)
AsSeq(f) == SubSeq(f, 1, Len(f))
Keys(d) == AsSeq([i \in 1..Len(d) |-> d[i][1]])
Lookup(d, k) == LET i == CHOOSE i \in 1..Len(d) : d[i][1] = k IN d[i][2]
\* dict item assignment that appends an entry even when the key is there
Store_append(d, k, v) == Append(d, <<k, v>>)
Store(d, k, v) ==
    IF Contains(Keys(d), k)
    THEN AsSeq([i \in 1..Len(d) |-> IF d[i][1] = k THEN <<k, v>> ELSE d[i]])
    ELSE Append(d, <<k, v>>)
\* a dict whose order is never read is a function on its keys
Put(f, k, v) == (k :> v) @@ f
\* Python evaluates an argument before the call it is passed to: a loop
\* evaluates what it has built so far before it goes on
Evaluated(x) == x = x
\* path.reverse() left out: the path stays in goal-to-start order
Reverse_forgotten(s) == s
Reverse(s) == AsSeq([i \in 1..Len(s) |-> s[Len(s) + 1 - i]])
\* float addition with the infinity sentinel
Plus(a, b) == IF a = Inf \/ b = Inf THEN Inf ELSE a + b

\* ================================================================ Graph
\* A graph is [directed, nodes, neighbors]: nodes is the key order of
\* Graph.nodes, neighbors[v] is GraphNode(v).neighbors (neighbor -> weight).
NewGraph(d) == [directed |-> d, nodes |-> <<>>,
                neighbors |-> [v \in Values |-> <<>>]]

\* add_neighbor that starts a new neighbors dict
add_neighbor_replace(G, node, neighbor, weight) ==
    [G EXCEPT !.neighbors = Put(@, node, <<<<neighbor, weight>>>>)]

add_neighbor(G, node, neighbor, weight) ==
    [G EXCEPT !.neighbors = Put(@, node, Store(@[node], neighbor, weight))]

\* add_node without the membership test: the node is replaced by a new one
add_node_fresh(G, value) ==
    [nodes |-> IF Contains(G.nodes, value) THEN G.nodes
               ELSE Append(G.nodes, value),
     neighbors |-> Put(G.neighbors, value, <<>>),
     directed |-> G.directed]

add_node(G, value) ==
    IF Contains(G.nodes, value) THEN G
    ELSE [G EXCEPT !.nodes = Append(@, value),
                   !.neighbors = Put(@, value, <<>>)]

\* add_edge that never stores the reverse direction
add_edge_one_way(G, from_value, to_value, weight) ==
    add_neighbor(add_node(add_node(G, from_value), to_value),
                 from_value, to_value, weight)

\* add_edge that stores the reverse direction whatever `directed` says
add_edge_both_ways(G, from_value, to_value, weight) ==
    add_neighbor(add_edge_one_way(G, from_value, to_value, weight),
                 to_value, from_value, weight)

\* add_edge that stores the reverse direction with the default weight of
\* add_neighbor
add_edge_reverse_default(G, from_value, to_value, weight) ==
    LET G1 == add_node(add_node(G, from_value), to_value)
        G2 == add_neighbor(G1, from_value, to_value, weight)
    IN  IF ~G.directed THEN add_neighbor(G2, to_value, from_value, 1)
        ELSE G2

add_edge(G, from_value, to_value, weight) ==
    LET G1 == add_node(add_node(G, from_value), to_value)
        G2 == add_neighbor(G1, from_value, to_value, weight)
    IN  IF ~G.directed THEN add_neighbor(G2, to_value, from_value, weight)
        ELSE G2

get_node(G, value) == IF Contains(G.nodes, value) THEN value ELSE None

get_all_nodes(G) == G.nodes

\* GraphNode.get_neighbors / GraphNode.get_weight
get_neighbors(G, node) == Keys(G.neighbors[node])

get_weight(G, node, neighbor) ==
    IF Contains(Keys(G.neighbors[node]), neighbor)
    THEN Lookup(G.neighbors[node], neighbor)
    ELSE Inf

\* The methods of Graph as a caller sees them: [raised, value, graph], the
\* exception raised (none here: no path has a raise), the value returned and
\* the graph the call leaves behind.
Graph_add_node(G, value) ==
    [raised |-> "", value |-> value, graph |-> add_node(G, value)]

Graph_add_edge(G, from_value, to_value, weight) ==
    [raised |-> "", value |-> None,
     graph |-> add_edge(G, from_value, to_value, weight)]

\* get_node that creates the node it does not find
Graph_get_node_creating(G, value) ==
    [raised |-> "", value |-> value, graph |-> add_node(G, value)]

Graph_get_node(G, value) ==
    [raised |-> "", value |-> get_node(G, value), graph |-> G]

\* the graph after the two calls every search makes on it before its loop;
\* the loops go through GraphNode.get_neighbors and get_weight, which copy
\* or read the neighbors dict
lookup_endpoints_adding(G, start_value, goal_value) ==
    Graph_add_node(Graph_add_node(G, start_value).graph, goal_value).graph

lookup_endpoints(G, start_value, goal_value) ==
    Graph_get_node(Graph_get_node(G, start_value).graph, goal_value).graph

Graph_get_neighbors(G, value) ==
    LET node == get_node(G, value)
    IN  [raised |-> "",
         value |-> IF node # None THEN get_neighbors(G, node) ELSE <<>>,
         graph |-> G]

Graph_get_edge_weight(G, from_value, to_value) ==
    LET from_node == get_node(G, from_value)
        to_node == get_node(G, to_value)
    IN  [raised |-> "",
         value |-> IF from_node # None /\ to_node # None
                   THEN get_weight(G, from_node, to_node) ELSE Inf,
         graph |-> G]

\* =========================================================== containers
\* Queue: the linked list from _front to _rear as a sequence, and _size
NewQueue == [items |-> <<>>, size |-> 0]
queue_is_empty(q) == q.items = <<>>
queue_size(q) == q.size
\* enqueue that links the new node in front of _front
enqueue_front(q, value) == [items |-> <<value>> \o q.items, size |-> q.size + 1]
enqueue(q, value) == [items |-> Append(q.items, value), size |-> q.size + 1]
\* dequeue / peek give [raised, value, queue]
\* dequeue without `self._size -= 1`
dequeue_uncounted(q) ==
    IF queue_is_empty(q)
    THEN [raised |-> "IndexError", value |-> None, queue |-> q]
    ELSE [raised |-> "", value |-> Head(q.items),
          queue |-> [items |-> Tail(q.items), size |-> q.size]]
dequeue(q) ==
    IF queue_is_empty(q)
    THEN [raised |-> "IndexError", value |-> None, queue |-> q]
    ELSE [raised |-> "", value |-> Head(q.items),
          queue |-> [items |-> Tail(q.items), size |-> q.size - 1]]
\* peek that returns self._rear.value
queue_peek_rear(q) ==
    IF queue_is_empty(q)
    THEN [raised |-> "IndexError", value |-> None, queue |-> q]
    ELSE [raised |-> "", value |-> q.items[Len(q.items)], queue |-> q]
queue_peek(q) ==
    IF queue_is_empty(q)
    THEN [raised |-> "IndexError", value |-> None, queue |-> q]
    ELSE [raised |-> "", value |-> Head(q.items), queue |-> q]

\* Stack: the linked list from _top downwards as a sequence, and _size
NewStack == [items |-> <<>>, size |-> 0]
stack_is_empty(s) == s.items = <<>>
stack_size(s) == s.size
\* push that links the new node below the last one
push_under(s, value) == [items |-> Append(s.items, value), size |-> s.size + 1]
push(s, value) == [items |-> <<value>> \o s.items, size |-> s.size + 1]
\* pop that tolerates an empty stack and hands back None
pop_silent(s) ==
    IF stack_is_empty(s)
    THEN [raised |-> "", value |-> None, stack |-> s]
    ELSE [raised |-> "", value |-> Head(s.items),
          stack |-> [items |-> Tail(s.items), size |-> s.size - 1]]
pop(s) ==
    IF stack_is_empty(s)
    THEN [raised |-> "IndexError", value |-> None, stack |-> s]
    ELSE [raised |-> "", value |-> Head(s.items),
          stack |-> [items |-> Tail(s.items), size |-> s.size - 1]]
stack_peek(s) ==
    IF stack_is_empty(s)
    THEN [raised |-> "IndexError", value |-> None, stack |-> s]
    ELSE [raised |-> "", value |-> Head(s.items), stack |-> s]

\* PriorityQueue: _heap is a 1-based sequence of <<priority, value>>, so the
\* code's index i is heap[i + 1]
NewPQ == [heap |-> <<>>, size |-> 0]
pq_is_empty(p) == p.size = 0
pq_size(p) == p.size
Swap(heap, i, j) ==
    AsSeq([k \in 1..Len(heap) |->
            IF k = i + 1 THEN heap[j + 1] ELSE IF k = j + 1 THEN heap[i + 1]
            ELSE heap[k]])

\* _heapify_up with `if` in place of `while`: at most one swap
_heapify_up_once(heap, index) ==
    LET parent == (index - 1) \div 2
    IN  IF index > 0 /\ heap[index + 1][1] < heap[parent + 1][1]
        THEN Swap(heap, index, parent)
        ELSE heap

RECURSIVE _heapify_up(_, _)
_heapify_up(heap, index) ==
    LET parent == (index - 1) \div 2
    IN  IF index > 0 /\ heap[index + 1][1] < heap[parent + 1][1]
        THEN _heapify_up(Swap(heap, index, parent), parent)
        ELSE heap

\* _heapify_down that never looks at the right child
RECURSIVE _heapify_down_left_only(_, _, _)
_heapify_down_left_only(heap, size, index) ==
    LET left == 2 * index + 1
        smallest == IF left < size /\ heap[left + 1][1] < heap[index + 1][1]
                    THEN left ELSE index
    IN  IF smallest # index
        THEN _heapify_down_left_only(Swap(heap, index, smallest), size, smallest)
        ELSE heap

RECURSIVE _heapify_down(_, _, _)
_heapify_down(heap, size, index) ==
    LET left == 2 * index + 1
        right == 2 * index + 2
        s1 == IF left < size /\ heap[left + 1][1] < heap[index + 1][1]
              THEN left ELSE index
        smallest == IF right < size /\ heap[right + 1][1] < heap[s1 + 1][1]
                    THEN right ELSE s1
    IN  IF smallest # index
        THEN _heapify_down(Swap(heap, index, smallest), size, smallest)
        ELSE heap

\* insert without the call of _heapify_up
insert_appending(p, value, priority) ==
    [heap |-> Append(p.heap, <<priority, value>>), size |-> p.size + 1]

insert(p, value, priority) ==
    [heap |-> _heapify_up(Append(p.heap, <<priority, value>>), p.size),
     size |-> p.size + 1]

\* extract_min / peek_min give [raised, item, pq]
extract_min(p) ==
    IF pq_is_empty(p)
    THEN [raised |-> "IndexError", item |-> <<>>, pq |-> p]
    ELSE LET moved == <<p.heap[p.size]>> \o Tail(p.heap)
             popped == SubSeq(moved, 1, Len(moved) - 1)
             size == p.size - 1
         IN  [raised |-> "", item |-> p.heap[1],
              pq |-> [heap |-> IF size # 0
                               THEN _heapify_down(popped, size, 0)
                               ELSE popped,
                      size |-> size]]
peek_min(p) ==
    IF pq_is_empty(p)
    THEN [raised |-> "IndexError", item |-> <<>>, pq |-> p]
    ELSE [raised |-> "", item |-> p.heap[1], pq |-> p]

\* ============================================================= searches
\* path = []; node = goal_node; while node is not None: ... node = parent[node]
RECURSIVE walk_parents(_, _)
walk_parents(parent, node) ==
    IF node = None THEN <<>>
    ELSE <<node>> \o walk_parents(parent, parent[node])

\* the same walk with parent.get(node): a missing key reads as None
RECURSIVE walk_parents_get(_, _)
walk_parents_get(parent, node) ==
    IF node = None THEN <<>>
    ELSE <<node>> \o walk_parents_get(parent,
                        IF node \in DOMAIN parent THEN parent[node] ELSE None)

\* the record returned when an endpoint is missing
absent_result == [found |-> FALSE, path |-> <<>>, visited |-> <<>>,
                  nodes_explored |-> 0]
absent_result_cost == [found |-> FALSE, path |-> <<>>, cost |-> Inf,
                       visited |-> <<>>, nodes_explored |-> 0]

\* ---------------------------------------------------- breadth_first_search
\* the endpoint check with the goal forgotten
bfs_begin_start_only(G, start_value, goal_value) ==
    LET start_node == get_node(G, start_value)
        goal_node == get_node(G, goal_value)
    IN  IF start_node = None
        THEN [pc |-> "returned", result |-> absent_result]
        ELSE [pc |-> "loop", goal_node |-> goal_node,
              queue |-> enqueue(NewQueue, start_node),
              visited |-> {start_node},
              parent |-> [n \in {start_node} |-> None],
              visited_order |-> <<start_value>>]

bfs_begin(G, start_value, goal_value) ==
    LET start_node == get_node(G, start_value)
        goal_node == get_node(G, goal_value)
    IN  IF start_node = None \/ goal_node = None
        THEN [pc |-> "returned", result |-> absent_result]
        ELSE [pc |-> "loop", goal_node |-> goal_node,
              queue |-> enqueue(NewQueue, start_node),
              visited |-> {start_node},
              parent |-> [n \in {start_node} |-> None],
              visited_order |-> <<start_value>>]

\* the neighbor loop with a break after the first unvisited neighbor
RECURSIVE bfs_neighbors_break(_, _, _, _)
bfs_neighbors_break(L, current, nbrs, i) ==
    IF i > Len(nbrs) THEN L
    ELSE LET neighbor == nbrs[i]
         IN  IF neighbor \notin L.visited
             THEN [L EXCEPT !.visited = @ \cup {neighbor},
                            !.parent = Put(@, neighbor, current),
                            !.queue = enqueue(@, neighbor),
                            !.visited_order = Append(@, neighbor)]
             ELSE bfs_neighbors_break(L, current, nbrs, i + 1)

\* the neighbor loop without the visited_order.append
RECURSIVE bfs_neighbors_unrecorded(_, _, _, _)
bfs_neighbors_unrecorded(L, current, nbrs, i) ==
    IF i > Len(nbrs) THEN L
    ELSE LET neighbor == nbrs[i]
         IN  IF neighbor \notin L.visited
             THEN bfs_neighbors_unrecorded(
                    [L EXCEPT !.visited = @ \cup {neighbor},
                              !.parent = Put(@, neighbor, current),
                              !.queue = enqueue(@, neighbor)],
                    current, nbrs, i + 1)
             ELSE bfs_neighbors_unrecorded(L, current, nbrs, i + 1)

\* for neighbor in current.get_neighbors(): ...
RECURSIVE bfs_neighbors(_, _, _, _)
bfs_neighbors(L, current, nbrs, i) ==
    IF i > Len(nbrs) THEN L
    ELSE LET neighbor == nbrs[i]
         IN  IF neighbor \notin L.visited
             THEN bfs_neighbors(
                    [L EXCEPT !.visited = @ \cup {neighbor},
                              !.parent = Put(@, neighbor, current),
                              !.queue = enqueue(@, neighbor),
                              !.visited_order = Append(@, neighbor)],
                    current, nbrs, i + 1)
             ELSE bfs_neighbors(L, current, nbrs, i + 1)

\* the loop with current = queue.peek(): the queue is never shortened
bfs_step_peek(G, L) ==
    IF queue_is_empty(L.queue)
    THEN [pc |-> "returned",
          result |-> [found |-> FALSE, path |-> <<>>,
                      visited |-> L.visited_order,
                      nodes_explored |-> Cardinality(L.visited)]]
    ELSE LET current == queue_peek(L.queue).value
         IN  IF current = L.goal_node
             THEN [pc |-> "returned",
                   result |-> [found |-> TRUE,
                               path |-> Reverse(walk_parents(L.parent, L.goal_node)),
                               visited |-> L.visited_order,
                               nodes_explored |-> Cardinality(L.visited)]]
             ELSE bfs_neighbors(L, current, get_neighbors(G, current), 1)

\* the loop with current taken from the rear of the queue, the node
\* enqueued last
bfs_step_newest(G, L) ==
    IF queue_is_empty(L.queue)
    THEN [pc |-> "returned",
          result |-> [found |-> FALSE, path |-> <<>>,
                      visited |-> L.visited_order,
                      nodes_explored |-> Cardinality(L.visited)]]
    ELSE LET items == L.queue.items
             current == items[Len(items)]
             L1 == [L EXCEPT !.queue = [items |-> SubSeq(items, 1, Len(items) - 1),
                                        size |-> @.size - 1]]
         IN  IF current = L.goal_node
             THEN [pc |-> "returned",
                   result |-> [found |-> TRUE,
                               path |-> Reverse(walk_parents(L.parent, L.goal_node)),
                               visited |-> L.visited_order,
                               nodes_explored |-> Cardinality(L.visited)]]
             ELSE bfs_neighbors(L1, current, get_neighbors(G, current), 1)

\* one test of the while condition and, when it holds, one iteration
bfs_step(G, L) ==
    IF queue_is_empty(L.queue)
    THEN [pc |-> "returned",
          result |-> [found |-> FALSE, path |-> <<>>,
                      visited |-> L.visited_order,
                      nodes_explored |-> Cardinality(L.visited)]]
    ELSE LET d == dequeue(L.queue)
             current == d.value
             L1 == [L EXCEPT !.queue = d.queue]
         IN  IF current = L.goal_node
             THEN [pc |-> "returned",
                   result |-> [found |-> TRUE,
                               path |-> Reverse(walk_parents(L.parent, L.goal_node)),
                               visited |-> L.visited_order,
                               nodes_explored |-> Cardinality(L.visited)]]
             ELSE bfs_neighbors(L1, current, get_neighbors(G, current), 1)

RECURSIVE bfs_run(_, _)
bfs_run(G, L) == IF L.pc = "returned" THEN L.result ELSE bfs_run(G, bfs_step(G, L))

breadth_first_search(G, start_value, goal_value) ==
    bfs_run(G, bfs_begin(G, start_value, goal_value))

\* ------------------------------------------------------ depth_first_search
dfs_begin(G, start_value, goal_value) ==
    LET start_node == get_node(G, start_value)
        goal_node == get_node(G, goal_value)
    IN  IF start_node = None \/ goal_node = None
        THEN [pc |-> "returned", result |-> absent_result]
        ELSE [pc |-> "loop", goal_node |-> goal_node,
              stack |-> push(NewStack, start_node),
              visited |-> {},
              parent |-> [n \in {start_node} |-> None],
              visited_order |-> <<>>]

\* the reversed neighbor loop stopping one short of the first neighbor
RECURSIVE dfs_neighbors_skip_first(_, _, _, _)
dfs_neighbors_skip_first(L, current, nbrs, i) ==
    IF i < 2 THEN L
    ELSE LET neighbor == nbrs[i]
         IN  IF neighbor \notin L.visited
             THEN dfs_neighbors_skip_first(
                    [L EXCEPT !.parent = IF neighbor \notin DOMAIN @
                                         THEN Put(@, neighbor, current) ELSE @,
                              !.stack = push(@, neighbor)],
                    current, nbrs, i - 1)
             ELSE dfs_neighbors_skip_first(L, current, nbrs, i - 1)

\* the neighbor loop in adjacency order: the last neighbor ends on top of
\* the stack
RECURSIVE dfs_neighbors_forward(_, _, _, _)
dfs_neighbors_forward(L, current, nbrs, i) ==
    IF i < 1 THEN L
    ELSE LET neighbor == nbrs[Len(nbrs) + 1 - i]
         IN  IF neighbor \notin L.visited
             THEN dfs_neighbors_forward(
                    [L EXCEPT !.parent = IF neighbor \notin DOMAIN @
                                         THEN Put(@, neighbor, current) ELSE @,
                              !.stack = push(@, neighbor)],
                    current, nbrs, i - 1)
             ELSE dfs_neighbors_forward(L, current, nbrs, i - 1)

\* the reversed neighbor loop with parent[neighbor] = current at every
\* push: a later push overwrites the parent
RECURSIVE dfs_neighbors_reparent(_, _, _, _)
dfs_neighbors_reparent(L, current, nbrs, i) ==
    IF i < 1 THEN L
    ELSE LET neighbor == nbrs[i]
         IN  IF neighbor \notin L.visited
             THEN dfs_neighbors_reparent(
                    [L EXCEPT !.parent = Put(@, neighbor, current),
                              !.stack = push(@, neighbor)],
                    current, nbrs, i - 1)
             ELSE dfs_neighbors_reparent(L, current, nbrs, i - 1)

\* for neighbor in reversed(neighbors): ...
RECURSIVE dfs_neighbors(_, _, _, _)
dfs_neighbors(L, current, nbrs, i) ==
    IF i < 1 THEN L
    ELSE LET neighbor == nbrs[i]
         IN  IF neighbor \notin L.visited
             THEN dfs_neighbors(
                    [L EXCEPT !.parent = IF neighbor \notin DOMAIN @
                                         THEN Put(@, neighbor, current) ELSE @,
                              !.stack = push(@, neighbor)],
                    current, nbrs, i - 1)
             ELSE dfs_neighbors(L, current, nbrs, i - 1)

\* the loop without the test `if current in visited: continue`: a stale
\* entry is processed again
dfs_step_revisit(G, L) ==
    IF stack_is_empty(L.stack)
    THEN [pc |-> "returned",
          result |-> [found |-> FALSE, path |-> <<>>,
                      visited |-> L.visited_order,
                      nodes_explored |-> Cardinality(L.visited)]]
    ELSE LET p == pop(L.stack)
             current == p.value
             L1 == [L EXCEPT !.stack = p.stack]
             L2 == [L1 EXCEPT !.visited = @ \cup {current},
                              !.visited_order = Append(@, current)]
         IN  IF current = L.goal_node
             THEN [pc |-> "returned",
                   result |-> [found |-> TRUE,
                               path |-> Reverse(walk_parents(L2.parent, L.goal_node)),
                               visited |-> L2.visited_order,
                               nodes_explored |-> Cardinality(L2.visited)]]
             ELSE dfs_neighbors(L2, current, get_neighbors(G, current),
                                Len(get_neighbors(G, current)))

dfs_step(G, L) ==
    IF stack_is_empty(L.stack)
    THEN [pc |-> "returned",
          result |-> [found |-> FALSE, path |-> <<>>,
                      visited |-> L.visited_order,
                      nodes_explored |-> Cardinality(L.visited)]]
    ELSE LET p == pop(L.stack)
             current == p.value
             L1 == [L EXCEPT !.stack = p.stack]
         IN  IF current \in L.visited THEN L1
             ELSE LET L2 == [L1 EXCEPT !.visited = @ \cup {current},
                                       !.visited_order = Append(@, current)]
                  IN  IF current = L.goal_node
                      THEN [pc |-> "returned",
                            result |-> [found |-> TRUE,
                                        path |-> Reverse(walk_parents(L2.parent, L.goal_node)),
                                        visited |-> L2.visited_order,
                                        nodes_explored |-> Cardinality(L2.visited)]]
                      ELSE dfs_neighbors(L2, current, get_neighbors(G, current),
                                         Len(get_neighbors(G, current)))

RECURSIVE dfs_run(_, _)
dfs_run(G, L) == IF L.pc = "returned" THEN L.result ELSE dfs_run(G, dfs_step(G, L))

depth_first_search(G, start_value, goal_value) ==
    dfs_run(G, dfs_begin(G, start_value, goal_value))

\* the setup without distance[start_node] = 0: every distance is infinite
dijkstra_begin_unset(G, start_value, goal_value) ==
    LET start_node == get_node(G, start_value)
        goal_node == get_node(G, goal_value)
        all == {get_all_nodes(G)[i] : i \in 1..Len(get_all_nodes(G))}
    IN  IF start_node = None \/ goal_node = None
        THEN [pc |-> "returned", result |-> absent_result_cost]
        ELSE [pc |-> "loop", goal_node |-> goal_node,
              distance |-> [n \in all |-> Inf],
              parent |-> [n \in {start_node} |-> None],
              visited |-> {},
              visited_order |-> <<>>,
              pq |-> insert(NewPQ, start_node, 0)]

\* the setup with distance = {start_node: 0}: the other nodes are not keys
dijkstra_begin_start_key(G, start_value, goal_value) ==
    LET start_node == get_node(G, start_value)
        goal_node == get_node(G, goal_value)
    IN  IF start_node = None \/ goal_node = None
        THEN [pc |-> "returned", result |-> absent_result_cost]
        ELSE [pc |-> "loop", goal_node |-> goal_node,
              distance |-> [n \in {start_node} |-> 0],
              parent |-> [n \in {start_node} |-> None],
              visited |-> {},
              visited_order |-> <<>>,
              pq |-> insert(NewPQ, start_node, 0)]

\* ---------------------------------------------------------------- dijkstra
dijkstra_begin(G, start_value, goal_value) ==
    LET start_node == get_node(G, start_value)
        goal_node == get_node(G, goal_value)
        all == {get_all_nodes(G)[i] : i \in 1..Len(get_all_nodes(G))}
    IN  IF start_node = None \/ goal_node = None
        THEN [pc |-> "returned", result |-> absent_result_cost]
        ELSE [pc |-> "loop", goal_node |-> goal_node,
              distance |-> [n \in all |-> IF n = start_node THEN 0 ELSE Inf],
              parent |-> [n \in {start_node} |-> None],
              visited |-> {},
              visited_order |-> <<>>,
              pq |-> insert(NewPQ, start_node, 0)]

\* relaxation that keeps the first distance found for a node
RECURSIVE dijkstra_neighbors_first_seen(_, _, _, _, _)
dijkstra_neighbors_first_seen(G, L, current, nbrs, i) ==
    IF i > Len(nbrs) THEN L
    ELSE LET neighbor == nbrs[i]
             edge_weight == get_weight(G, current, neighbor)
             new_distance == Plus(L.distance[current], edge_weight)
         IN  IF neighbor \in L.visited
             THEN dijkstra_neighbors_first_seen(G, L, current, nbrs, i + 1)
             ELSE IF L.distance[neighbor] = Inf
             THEN dijkstra_neighbors_first_seen(G,
                    [L EXCEPT !.distance = Put(@, neighbor, new_distance),
                              !.parent = Put(@, neighbor, current),
                              !.pq = insert(@, neighbor, new_distance)],
                    current, nbrs, i + 1)
             ELSE dijkstra_neighbors_first_seen(G, L, current, nbrs, i + 1)

\* relaxation that queues every neighbor with priority 0
RECURSIVE dijkstra_neighbors_unprioritised(_, _, _, _, _)
dijkstra_neighbors_unprioritised(G, L, current, nbrs, i) ==
    IF i > Len(nbrs) THEN L
    ELSE LET neighbor == nbrs[i]
             edge_weight == get_weight(G, current, neighbor)
             new_distance == Plus(L.distance[current], edge_weight)
         IN  IF neighbor \in L.visited
             THEN dijkstra_neighbors_unprioritised(G, L, current, nbrs, i + 1)
             ELSE IF new_distance < L.distance[neighbor]
             THEN dijkstra_neighbors_unprioritised(G,
                    [L EXCEPT !.distance = Put(@, neighbor, new_distance),
                              !.parent = Put(@, neighbor, current),
                              !.pq = insert(@, neighbor, 0)],
                    current, nbrs, i + 1)
             ELSE dijkstra_neighbors_unprioritised(G, L, current, nbrs, i + 1)

\* relaxation with new_distance = edge_weight: the distance of current is
\* not added
RECURSIVE dijkstra_neighbors_edge_only(_, _, _, _, _)
dijkstra_neighbors_edge_only(G, L, current, nbrs, i) ==
    IF i > Len(nbrs) THEN L
    ELSE LET neighbor == nbrs[i]
             new_distance == get_weight(G, current, neighbor)
         IN  IF neighbor \in L.visited
             THEN dijkstra_neighbors_edge_only(G, L, current, nbrs, i + 1)
             ELSE IF new_distance < L.distance[neighbor]
             THEN dijkstra_neighbors_edge_only(G,
                    [L EXCEPT !.distance = Put(@, neighbor, new_distance),
                              !.parent = Put(@, neighbor, current),
                              !.pq = insert(@, neighbor, new_distance)],
                    current, nbrs, i + 1)
             ELSE dijkstra_neighbors_edge_only(G, L, current, nbrs, i + 1)

\* relaxation that queues a neighbor with the weight of the edge as its
\* priority (the order of Prim's algorithm)
RECURSIVE dijkstra_neighbors_prim(_, _, _, _, _)
dijkstra_neighbors_prim(G, L, current, nbrs, i) ==
    IF i > Len(nbrs) THEN L
    ELSE LET neighbor == nbrs[i]
             edge_weight == get_weight(G, current, neighbor)
             new_distance == Plus(L.distance[current], edge_weight)
         IN  IF neighbor \in L.visited
             THEN dijkstra_neighbors_prim(G, L, current, nbrs, i + 1)
             ELSE IF new_distance < L.distance[neighbor]
             THEN dijkstra_neighbors_prim(G,
                    [L EXCEPT !.distance = Put(@, neighbor, new_distance),
                              !.parent = Put(@, neighbor, current),
                              !.pq = insert(@, neighbor, edge_weight)],
                    current, nbrs, i + 1)
             ELSE dijkstra_neighbors_prim(G, L, current, nbrs, i + 1)

\* for neighbor in current.get_neighbors(): ... (relaxation)
RECURSIVE dijkstra_neighbors(_, _, _, _, _)
dijkstra_neighbors(G, L, current, nbrs, i) ==
    IF i > Len(nbrs) THEN L
    ELSE LET neighbor == nbrs[i]
             edge_weight == get_weight(G, current, neighbor)
             new_distance == Plus(L.distance[current], edge_weight)
         IN  IF neighbor \in L.visited
             THEN dijkstra_neighbors(G, L, current, nbrs, i + 1)
             ELSE IF new_distance < L.distance[neighbor]
             THEN dijkstra_neighbors(G,
                    [L EXCEPT !.distance = Put(@, neighbor, new_distance),
                              !.parent = Put(@, neighbor, current),
                              !.pq = insert(@, neighbor, new_distance)],
                    current, nbrs, i + 1)
             ELSE dijkstra_neighbors(G, L, current, nbrs, i + 1)

\* the loop with the absent-endpoint record returned when the frontier is
\* exhausted
dijkstra_step_absent_result(G, L) ==
    IF pq_is_empty(L.pq)
    THEN [pc |-> "returned", result |-> absent_result_cost]
    ELSE LET e == extract_min(L.pq)
             current == e.item[2]
             L1 == [L EXCEPT !.pq = e.pq]
         IN  IF current \in L.visited THEN L1
             ELSE LET L2 == [L1 EXCEPT !.visited = @ \cup {current},
                                       !.visited_order = Append(@, current)]
                  IN  IF current = L.goal_node
                      THEN [pc |-> "returned",
                            result |-> [found |-> TRUE,
                                        path |-> Reverse(walk_parents_get(L2.parent, L.goal_node)),
                                        cost |-> L2.distance[L.goal_node],
                                        visited |-> L2.visited_order,
                                        nodes_explored |-> Cardinality(L2.visited)]]
                      ELSE dijkstra_neighbors(G, L2, current,
                                              get_neighbors(G, current), 1)

dijkstra_step(G, L) ==
    IF pq_is_empty(L.pq)
    THEN [pc |-> "returned",
          result |-> [found |-> FALSE, path |-> <<>>, cost |-> Inf,
                      visited |-> L.visited_order,
                      nodes_explored |-> Cardinality(L.visited)]]
    ELSE LET e == extract_min(L.pq)
             current == e.item[2]
             L1 == [L EXCEPT !.pq = e.pq]
         IN  IF current \in L.visited THEN L1
             ELSE LET L2 == [L1 EXCEPT !.visited = @ \cup {current},
                                       !.visited_order = Append(@, current)]
                  IN  IF current = L.goal_node
                      THEN [pc |-> "returned",
                            result |-> [found |-> TRUE,
                                        path |-> Reverse(walk_parents_get(L2.parent, L.goal_node)),
                                        cost |-> L2.distance[L.goal_node],
                                        visited |-> L2.visited_order,
                                        nodes_explored |-> Cardinality(L2.visited)]]
                      ELSE dijkstra_neighbors(G, L2, current,
                                              get_neighbors(G, current), 1)

RECURSIVE dijkstra_run(_, _)
dijkstra_run(G, L) ==
    IF L.pc = "returned" THEN L.result ELSE dijkstra_run(G, dijkstra_step(G, L))

dijkstra(G, start_value, goal_value) ==
    dijkstra_run(G, dijkstra_begin(G, start_value, goal_value))

\* ------------------------------------------------------------------- astar
\* heuristic is a function on node values: heuristic[v] is the code's
\* heuristic(v, goal_value), the goal being fixed during one call
astar_begin(G, start_value, goal_value, heuristic) ==
    LET start_node == get_node(G, start_value)
        goal_node == get_node(G, goal_value)
        all == {get_all_nodes(G)[i] : i \in 1..Len(get_all_nodes(G))}
        f0 == heuristic[start_value]
    IN  IF start_node = None \/ goal_node = None
        THEN [pc |-> "returned", result |-> absent_result_cost]
        ELSE [pc |-> "loop", goal_node |-> goal_node,
              g_score |-> [n \in all |-> IF n = start_node THEN 0 ELSE Inf],
              f_score |-> [n \in all |-> IF n = start_node THEN f0 ELSE Inf],
              parent |-> [n \in {start_node} |-> None],
              visited |-> {},
              visited_order |-> <<>>,
              pq |-> insert(NewPQ, start_node, f0)]

\* the neighbor loop queueing on the heuristic alone (greedy best-first)
RECURSIVE astar_neighbors_greedy(_, _, _, _, _, _)
astar_neighbors_greedy(G, heuristic, L, current, nbrs, i) ==
    IF i > Len(nbrs) THEN L
    ELSE LET neighbor == nbrs[i]
             tentative_g_score == Plus(L.g_score[current],
                                       get_weight(G, current, neighbor))
             f == heuristic[neighbor]
         IN  IF neighbor \in L.visited
             THEN astar_neighbors_greedy(G, heuristic, L, current, nbrs, i + 1)
             ELSE IF tentative_g_score < L.g_score[neighbor]
             THEN astar_neighbors_greedy(G, heuristic,
                    [L EXCEPT !.parent = Put(@, neighbor, current),
                              !.g_score = Put(@, neighbor, tentative_g_score),
                              !.f_score = Put(@, neighbor, f),
                              !.pq = insert(@, neighbor, f)],
                    current, nbrs, i + 1)
             ELSE astar_neighbors_greedy(G, heuristic, L, current, nbrs, i + 1)

\* relaxation that also takes a path of equal cost (<= for <)
RECURSIVE astar_neighbors_ties(_, _, _, _, _, _)
astar_neighbors_ties(G, heuristic, L, current, nbrs, i) ==
    IF i > Len(nbrs) THEN L
    ELSE LET neighbor == nbrs[i]
             tentative_g_score == Plus(L.g_score[current],
                                       get_weight(G, current, neighbor))
             f == Plus(tentative_g_score, heuristic[neighbor])
         IN  IF neighbor \in L.visited
             THEN astar_neighbors_ties(G, heuristic, L, current, nbrs, i + 1)
             ELSE IF tentative_g_score <= L.g_score[neighbor]
             THEN astar_neighbors_ties(G, heuristic,
                    [L EXCEPT !.parent = Put(@, neighbor, current),
                              !.g_score = Put(@, neighbor, tentative_g_score),
                              !.f_score = Put(@, neighbor, f),
                              !.pq = insert(@, neighbor, f)],
                    current, nbrs, i + 1)
             ELSE astar_neighbors_ties(G, heuristic, L, current, nbrs, i + 1)

RECURSIVE astar_neighbors(_, _, _, _, _, _)
astar_neighbors(G, heuristic, L, current, nbrs, i) ==
    IF i > Len(nbrs) THEN L
    ELSE LET neighbor == nbrs[i]
             tentative_g_score == Plus(L.g_score[current],
                                       get_weight(G, current, neighbor))
             f == Plus(tentative_g_score, heuristic[neighbor])
         IN  IF neighbor \in L.visited
             THEN astar_neighbors(G, heuristic, L, current, nbrs, i + 1)
             ELSE IF tentative_g_score < L.g_score[neighbor]
             THEN astar_neighbors(G, heuristic,
                    [L EXCEPT !.parent = Put(@, neighbor, current),
                              !.g_score = Put(@, neighbor, tentative_g_score),
                              !.f_score = Put(@, neighbor, f),
                              !.pq = insert(@, neighbor, f)],
                    current, nbrs, i + 1)
             ELSE astar_neighbors(G, heuristic, L, current, nbrs, i + 1)

\* the loop returning f_score[goal_node] as the cost: the heuristic of the
\* goal is added
astar_step_f_score(G, heuristic, L) ==
    IF pq_is_empty(L.pq)
    THEN [pc |-> "returned",
          result |-> [found |-> FALSE, path |-> <<>>, cost |-> Inf,
                      visited |-> L.visited_order,
                      nodes_explored |-> Cardinality(L.visited)]]
    ELSE LET e == extract_min(L.pq)
             current == e.item[2]
             L1 == [L EXCEPT !.pq = e.pq]
         IN  IF current \in L.visited THEN L1
             ELSE LET L2 == [L1 EXCEPT !.visited = @ \cup {current},
                                       !.visited_order = Append(@, current)]
                  IN  IF current = L.goal_node
                      THEN [pc |-> "returned",
                            result |-> [found |-> TRUE,
                                        path |-> Reverse(walk_parents_get(L2.parent, L.goal_node)),
                                        cost |-> L2.f_score[L.goal_node],
                                        visited |-> L2.visited_order,
                                        nodes_explored |-> Cardinality(L2.visited)]]
                      ELSE astar_neighbors(G, heuristic, L2, current,
                                           get_neighbors(G, current), 1)

astar_step(G, heuristic, L) ==
    IF pq_is_empty(L.pq)
    THEN [pc |-> "returned",
          result |-> [found |-> FALSE, path |-> <<>>, cost |-> Inf,
                      visited |-> L.visited_order,
                      nodes_explored |-> Cardinality(L.visited)]]
    ELSE LET e == extract_min(L.pq)
             current == e.item[2]
             L1 == [L EXCEPT !.pq = e.pq]
         IN  IF current \in L.visited THEN L1
             ELSE LET L2 == [L1 EXCEPT !.visited = @ \cup {current},
                                       !.visited_order = Append(@, current)]
                  IN  IF current = L.goal_node
                      THEN [pc |-> "returned",
                            result |-> [found |-> TRUE,
                                        path |-> Reverse(walk_parents_get(L2.parent, L.goal_node)),
                                        cost |-> L2.g_score[L.goal_node],
                                        visited |-> L2.visited_order,
                                        nodes_explored |-> Cardinality(L2.visited)]]
                      ELSE astar_neighbors(G, heuristic, L2, current,
                                           get_neighbors(G, current), 1)

RECURSIVE astar_run(_, _, _)
astar_run(G, heuristic, L) ==
    IF L.pc = "returned" THEN L.result
    ELSE astar_run(G, heuristic, astar_step(G, heuristic, L))

astar(G, start_value, goal_value, heuristic) ==
    astar_run(G, heuristic, astar_begin(G, start_value, goal_value, heuristic))

\* ================================================================ state
VARIABLES
    graph,            \* the Graph the caller builds
    budget,           \* add_node / add_edge calls the caller still makes
    plan,             \* the searches the caller still runs, in order
    start, goal,      \* the start_value and goal_value of the caller's query
    heuristic,        \* the heuristic passed to astar
    bfs_result, dfs_result, dijkstra_result, astar_result,
    frame,            \* the running search: its name and its local variables
    under_test,       \* the container class a container test instantiates
    queue, stack, pq, \* that container
    last,             \* the outcome of the last container or Graph call
    values, extracted, \* priorities inserted / extracted since pq was empty
    history,          \* the insertions and removals that succeeded, in order
    tasks             \* SchedulingProblem.tasks: name -> Task, in insertion order

graphVars == <<graph, budget>>
searchVars == <<plan, start, goal, heuristic,
                bfs_result, dfs_result, dijkstra_result, astar_result, frame>>
containerVars == <<under_test, queue, stack, pq, last, values, extracted,
                   history>>
vars == <<graphVars, searchVars, containerVars, tasks>>

NotCalled == [called |-> FALSE]
NoCall == [op |-> "", raised |-> "", value |-> None]
NodeSet(G) == {G.nodes[i] : i \in 1..Len(G.nodes)}
\* a heuristic is only ever evaluated on the values of the graph's nodes
Heuristics(G) == {[v \in Values |-> IF v \in NodeSet(G) THEN f[v] ELSE 0] :
                    f \in [NodeSet(G) -> 0..MaxH]}
zero_heuristic == [v \in Values |-> 0]

NoContainers ==
    /\ under_test = "" /\ queue = NewQueue /\ stack = NewStack /\ pq = NewPQ
    /\ last = NoCall /\ values = <<>> /\ extracted = <<>> /\ history = <<>>

NoFrame == [name |-> "", locals |-> [pc |-> ""]]
NoSearch ==
    /\ heuristic = zero_heuristic /\ frame = NoFrame
    /\ bfs_result = NotCalled /\ dfs_result = NotCalled
    /\ dijkstra_result = NotCalled /\ astar_result = NotCalled

\* a caller builds a graph with up to MaxCalls calls, then runs the four
\* searches on one query
Init ==
    /\ \E d \in BOOLEAN : graph = NewGraph(d)
    /\ budget = MaxCalls
    /\ plan = <<"build", "bfs", "dfs", "dijkstra", "astar">>
    /\ start = None /\ goal = None
    /\ NoSearch /\ NoContainers /\ tasks = <<>>

\* a caller builds a default (undirected) Graph() with up to DeepCalls
\* add_edge calls, then compares the four searches from the first node it
\* created to the last one
InitDeep ==
    /\ graph = NewGraph(FALSE)
    /\ budget = DeepCalls
    /\ plan = <<"connect", "bfs", "dfs", "dijkstra", "astar">>
    /\ start = 1 /\ goal = 1
    /\ NoSearch /\ NoContainers /\ tasks = <<>>

\* the caller is at step x of its plan
Doing(x) == plan # <<>> /\ Head(plan) = x

\* the value of the k-th node the graph has not created yet
Fresh(k) == Len(graph.nodes) + k

\* the values a caller passes to the graph and to the searches: any in the
\* longer builds of SpecDeep, 1..MaxBuilt elsewhere
Passed == IF Doing("connect") THEN Values ELSE 1..MaxBuilt

AddNode ==
    /\ Doing("build") /\ budget > 0
    /\ \E value \in Passed :
        /\ value <= Fresh(1)
        /\ graph' = add_node(graph, value)
    /\ budget' = budget - 1
    /\ UNCHANGED <<searchVars, containerVars, tasks>>

AddEdge ==
    /\ (Doing("build") \/ Doing("connect")) /\ budget > 0
    /\ \E from_value \in Passed, to_value \in Passed, weight \in Weights :
        /\ from_value <= Fresh(1)
        /\ to_value <= IF from_value = Fresh(1) THEN Fresh(2) ELSE Fresh(1)
        /\ Doing("connect") => weight >= 0
        /\ graph' = add_edge(graph, from_value, to_value, weight)
    /\ budget' = budget - 1
    /\ UNCHANGED <<searchVars, containerVars, tasks>>

\* the caller stops building and picks its query: values of nodes, or the
\* one value that names no node
Built ==
    /\ Doing("build")
    /\ \E start_value \in Passed, goal_value \in Passed :
        /\ start_value <= Fresh(1) /\ goal_value <= Fresh(1)
        /\ start' = start_value /\ goal' = goal_value
    /\ plan' = Tail(plan)
    /\ UNCHANGED <<graphVars, heuristic, frame, bfs_result, dfs_result,
                   dijkstra_result, astar_result, containerVars, tasks>>

\* the caller stops connecting nodes and asks for the last node it created
Connected ==
    /\ Doing("connect") /\ graph.nodes # <<>>
    /\ goal' = Len(graph.nodes)
    /\ plan' = Tail(plan)
    /\ UNCHANGED <<graphVars, start, heuristic, frame, bfs_result, dfs_result,
                   dijkstra_result, astar_result, containerVars, tasks>>

Bfs ==
    /\ Doing("bfs")
    /\ bfs_result' = breadth_first_search(graph, start, goal)
    /\ graph' = lookup_endpoints(graph, start, goal)
    /\ plan' = Tail(plan)
    /\ UNCHANGED <<budget, start, goal, heuristic, frame, dfs_result,
                   dijkstra_result, astar_result, containerVars, tasks>>

Dfs ==
    /\ Doing("dfs")
    /\ dfs_result' = depth_first_search(graph, start, goal)
    /\ graph' = lookup_endpoints(graph, start, goal)
    /\ plan' = Tail(plan)
    /\ UNCHANGED <<budget, start, goal, heuristic, frame, bfs_result,
                   dijkstra_result, astar_result, containerVars, tasks>>

Dijkstra ==
    /\ Doing("dijkstra")
    /\ dijkstra_result' = dijkstra(graph, start, goal)
    /\ graph' = lookup_endpoints(graph, start, goal)
    /\ plan' = Tail(plan)
    /\ UNCHANGED <<budget, start, goal, heuristic, frame, bfs_result,
                   dfs_result, astar_result, containerVars, tasks>>

Astar ==
    /\ Doing("astar")
    /\ \E h \in Heuristics(graph) :
        /\ heuristic' = h
        /\ astar_result' = astar(graph, start, goal, h)
    /\ graph' = lookup_endpoints(graph, start, goal)
    /\ plan' = Tail(plan)
    /\ UNCHANGED <<budget, start, goal, frame, bfs_result, dfs_result,
                   dijkstra_result, containerVars, tasks>>

Next == AddNode \/ AddEdge \/ Built \/ Bfs \/ Dfs \/ Dijkstra \/ Astar

Spec == Init /\ [][Next]_vars

NextDeep == AddEdge \/ Connected \/ Bfs \/ Dfs \/ Dijkstra \/ Astar

SpecDeep == InitDeep /\ [][NextDeep]_vars

\* ------------------------------------------------------ container tests
\* a test instantiates one container class and calls its methods in any order
InitContainers ==
    /\ graph = NewGraph(FALSE) /\ budget = 0 /\ plan = <<>>
    /\ start = None /\ goal = None
    /\ NoSearch /\ tasks = <<>>
    /\ under_test \in {"Queue", "Stack", "PriorityQueue"}
    /\ queue = NewQueue /\ stack = NewStack /\ pq = NewPQ
    /\ last = NoCall /\ values = <<>> /\ extracted = <<>> /\ history = <<>>

\* the calls of a test that change the container are logged in history: the
\* value a Queue or a Stack was given or gave back, and for a PriorityQueue
\* the call alone
Insertions ==
    Cardinality({i \in 1..Len(history) :
                    history[i].op \in {"enqueue", "push", "insert"}})
Removals ==
    Cardinality({i \in 1..Len(history) :
                    history[i].op \in {"dequeue", "pop", "extract_min"}})
Logged(op, raised, value) ==
    IF raised = "" THEN Append(history, [op |-> op, value |-> value])
    ELSE history

Enqueue ==
    /\ under_test = "Queue" /\ queue.size < MaxLen /\ Insertions < MaxOps
    /\ \E v \in Payloads :
        /\ queue' = enqueue(queue, v)
        /\ history' = Append(history, [op |-> "enqueue", value |-> v])
    /\ last' = [op |-> "enqueue", raised |-> "", value |-> None]
    /\ UNCHANGED <<graphVars, searchVars, under_test, stack, pq, values, extracted,
                   tasks>>

Dequeue ==
    /\ under_test = "Queue"
    /\ LET r == dequeue(queue)
       IN  /\ queue' = r.queue
           /\ last' = [op |-> "dequeue", raised |-> r.raised, value |-> r.value]
           /\ history' = Logged("dequeue", r.raised, r.value)
    /\ UNCHANGED <<graphVars, searchVars, under_test, stack, pq, values, extracted,
                   tasks>>

QueuePeek ==
    /\ under_test = "Queue"
    /\ LET r == queue_peek(queue)
       IN  /\ queue' = r.queue
           /\ last' = [op |-> "peek", raised |-> r.raised, value |-> r.value]
    /\ UNCHANGED <<graphVars, searchVars, under_test, stack, pq, values, extracted,
                   history, tasks>>

Push ==
    /\ under_test = "Stack" /\ stack.size < MaxLen /\ Insertions < MaxOps
    /\ \E v \in Payloads :
        /\ stack' = push(stack, v)
        /\ history' = Append(history, [op |-> "push", value |-> v])
    /\ last' = [op |-> "push", raised |-> "", value |-> None]
    /\ UNCHANGED <<graphVars, searchVars, under_test, queue, pq, values, extracted,
                   tasks>>

Pop ==
    /\ under_test = "Stack"
    /\ LET r == pop(stack)
       IN  /\ stack' = r.stack
           /\ last' = [op |-> "pop", raised |-> r.raised, value |-> r.value]
           /\ history' = Logged("pop", r.raised, r.value)
    /\ UNCHANGED <<graphVars, searchVars, under_test, queue, pq, values, extracted,
                   tasks>>

StackPeek ==
    /\ under_test = "Stack"
    /\ LET r == stack_peek(stack)
       IN  /\ stack' = r.stack
           /\ last' = [op |-> "peek", raised |-> r.raised, value |-> r.value]
    /\ UNCHANGED <<graphVars, searchVars, under_test, queue, pq, values, extracted,
                   history, tasks>>

\* values / extracted are the lists of a test that fills an empty pq and then
\* drains it: the priorities inserted since pq was empty and those extracted
\* since; an insert that follows an extract_min ends the scenario (values = <<>>)
Insert ==
    /\ under_test = "PriorityQueue" /\ pq.size < MaxLen /\ Insertions < MaxOps
    /\ \E v \in Payloads, priority \in Priorities :
        /\ pq' = insert(pq, v, priority)
        /\ history' = Append(history, [op |-> "insert", value |-> None])
        /\ values' = IF pq_is_empty(pq) THEN <<priority>>
                     ELSE IF values # <<>> /\ extracted = <<>>
                     THEN Append(values, priority)
                     ELSE <<>>
    /\ extracted' = <<>>
    /\ last' = [op |-> "insert", raised |-> "", value |-> None]
    /\ UNCHANGED <<graphVars, searchVars, under_test, queue, stack,
                   tasks>>

ExtractMin ==
    /\ under_test = "PriorityQueue"
    /\ LET r == extract_min(pq)
       IN  /\ pq' = r.pq
           /\ last' = [op |-> "extract_min", raised |-> r.raised, value |-> r.item]
           /\ history' = Logged("extract_min", r.raised, None)
           /\ extracted' = IF r.raised = "" /\ values # <<>>
                           THEN Append(extracted, r.item[1])
                           ELSE extracted
    /\ UNCHANGED <<graphVars, searchVars, under_test, queue, stack, values,
                   tasks>>

PeekMin ==
    /\ under_test = "PriorityQueue"
    /\ LET r == peek_min(pq)
       IN  /\ pq' = r.pq
           /\ last' = [op |-> "peek_min", raised |-> r.raised, value |-> r.item]
    /\ UNCHANGED <<graphVars, searchVars, under_test, queue, stack, values, extracted,
                   history, tasks>>

NextContainers ==
    \/ Enqueue \/ Dequeue \/ QueuePeek
    \/ Push \/ Pop \/ StackPeek
    \/ Insert \/ ExtractMin \/ PeekMin

SpecContainers == InitContainers /\ [][NextContainers]_vars

\* ----------------------------------------------------------- Graph tests
\* a test makes up to GraphCalls mutating calls on one Graph, and queries it
\* in between; last records the call: its name, arguments and outcome
InitGraph ==
    /\ \E d \in BOOLEAN : graph = NewGraph(d)
    /\ budget = GraphCalls
    /\ plan = <<"graph">>
    /\ start = None /\ goal = None
    /\ NoSearch /\ NoContainers /\ tasks = <<>>

Called(op, args, r) ==
    /\ graph' = r.graph
    /\ last' = [op |-> op, args |-> args, raised |-> r.raised, value |-> r.value]
    /\ UNCHANGED <<searchVars, under_test, queue, stack, pq, values,
                   extracted, history, tasks>>

CallAddNode ==
    /\ Doing("graph") /\ budget > 0
    /\ \E value \in Passed :
        /\ value <= Fresh(1)
        /\ Called("add_node", <<value>>, Graph_add_node(graph, value))
    /\ budget' = budget - 1

CallAddEdge ==
    /\ Doing("graph") /\ budget > 0
    /\ \E from_value \in Passed, to_value \in Passed, weight \in Weights :
        /\ from_value <= Fresh(1)
        /\ to_value <= IF from_value = Fresh(1) THEN Fresh(2) ELSE Fresh(1)
        /\ Called("add_edge", <<from_value, to_value, weight>>,
                  Graph_add_edge(graph, from_value, to_value, weight))
    /\ budget' = budget - 1

CallGetNode ==
    /\ Doing("graph")
    /\ \E value \in Passed :
        /\ value <= Fresh(1)
        /\ Called("get_node", <<value>>, Graph_get_node(graph, value))
    /\ UNCHANGED budget

CallGetNeighbors ==
    /\ Doing("graph")
    /\ \E value \in Passed :
        /\ value <= Fresh(1)
        /\ Called("get_neighbors", <<value>>, Graph_get_neighbors(graph, value))
    /\ UNCHANGED budget

CallGetEdgeWeight ==
    /\ Doing("graph")
    /\ \E from_value \in Passed, to_value \in Passed :
        /\ from_value <= Fresh(1) /\ to_value <= Fresh(1)
        /\ Called("get_edge_weight", <<from_value, to_value>>,
                  Graph_get_edge_weight(graph, from_value, to_value))
    /\ UNCHANGED budget

NextGraph ==
    \/ CallAddNode \/ CallAddEdge
    \/ CallGetNode \/ CallGetNeighbors \/ CallGetEdgeWeight

SpecGraph == InitGraph /\ [][NextGraph]_vars

\* ==================================================== reference notions
\* what the properties below are stated against: stored edges, reachability
\* and shortest distances, computed independently of the searches
HasEdge(G, u, v) ==
    \E i \in 1..Len(G.neighbors[u]) : G.neighbors[u][i][1] = v
EdgeCost(G, u, v, unit) == IF unit THEN 1 ELSE Lookup(G.neighbors[u], v)
Min(S) == CHOOSE x \in S : \A y \in S : x <= y
Returned(r) == r # NotCalled
NonNegative(G) ==
    \A u \in NodeSet(G), v \in NodeSet(G) :
        HasEdge(G, u, v) => EdgeCost(G, u, v, FALSE) >= 0
InGraph(v) == v \in NodeSet(graph)

RECURSIVE ReachFrom(_, _)
ReachFrom(G, S) ==
    LET T == S \cup {v \in NodeSet(G) : \E u \in S : HasEdge(G, u, v)}
    IN  IF T = S THEN S ELSE ReachFrom(G, T)
Reachable(G, s, g) == g \in ReachFrom(G, {s})

\* the function f, tabulated
Table(f) == f @@ f
\* k rounds of Bellman-Ford from the distances d (forward), or towards a goal
RECURSIVE RelaxFrom(_, _, _, _)
RelaxFrom(G, d, k, unit) ==
    IF k = 0 THEN d
    ELSE RelaxFrom(G,
            Table([v \in NodeSet(G) |->
                Min({d[v]} \cup {Plus(d[u], EdgeCost(G, u, v, unit)) :
                                    u \in {x \in NodeSet(G) : HasEdge(G, x, v)}})]),
            k - 1, unit)
RECURSIVE RelaxTo(_, _, _)
RelaxTo(G, d, k) ==
    IF k = 0 THEN d
    ELSE RelaxTo(G,
            Table([u \in NodeSet(G) |->
                Min({d[u]} \cup {Plus(EdgeCost(G, u, v, FALSE), d[v]) :
                                    v \in {x \in NodeSet(G) : HasEdge(G, u, x)}})]),
            k - 1)
Source(G, s) == [v \in NodeSet(G) |-> IF v = s THEN 0 ELSE Inf]
\* least total weight / least number of edges of a path from s to each node
ShortestFrom(G, s) == RelaxFrom(G, Source(G, s), Cardinality(NodeSet(G)), FALSE)
HopsFrom(G, s) == RelaxFrom(G, Source(G, s), Cardinality(NodeSet(G)), TRUE)
\* least total weight of a path from each node to g (the true remaining cost)
ShortestTo(G, g) == RelaxTo(G, Source(G, g), Cardinality(NodeSet(G)))

Admissible(G, g, h) ==
    LET remaining == ShortestTo(G, g)
    IN  \A n \in NodeSet(G) : h[n] <= remaining[n]
Consistent(G, g, h) ==
    /\ h[g] = 0
    /\ \A u \in NodeSet(G), v \in NodeSet(G) :
          HasEdge(G, u, v) => h[u] <= EdgeCost(G, u, v, FALSE) + h[v]

NoDuplicates(s) == \A i \in 1..Len(s), j \in 1..Len(s) : s[i] = s[j] => i = j
PathCost(G, path) ==
    LET RECURSIVE Sum(_)
        Sum(i) == IF i >= Len(path) THEN 0
                  ELSE EdgeCost(G, path[i], path[i + 1], FALSE) + Sum(i + 1)
    IN  Sum(1)
Count(s, x) == Cardinality({i \in 1..Len(s) : s[i] = x})
IsSorted(s) == \A i \in 1..Len(s) - 1 : s[i] <= s[i + 1]
SearchResults == <<bfs_result, dfs_result, dijkstra_result, astar_result>>

\* ================================================================ claims
\* C1: on a graph with non-negative weights, when goal is reachable from
\* start, dijkstra returns found = true and cost = the least total weight of
\* any start-to-goal path. (Stated of the state dijkstra returns to, where
\* the caller goes on to astar.)
C1_DijkstraOptimal ==
    (Doing("astar") /\ InGraph(start) /\ InGraph(goal)
        /\ NonNegative(graph) /\ Reachable(graph, start, goal))
    => /\ dijkstra_result.found
       /\ dijkstra_result.cost = ShortestFrom(graph, start)[goal]

\* a cheaper two-edge route beats a stored direct edge
C1_Witness ==
    /\ Returned(dijkstra_result) /\ dijkstra_result.found
    /\ Len(dijkstra_result.path) = 3
    /\ HasEdge(graph, start, goal)
    /\ EdgeCost(graph, start, goal, FALSE) > dijkstra_result.cost

\* C2: with an admissible heuristic (h(n) never above the true remaining
\* cost from n to goal) and a reachable goal, astar returns the same cost as
\* dijkstra, the true shortest-path cost.
C2_AstarCostIsOptimal ==
    (Returned(astar_result) /\ InGraph(start) /\ InGraph(goal)
        /\ Reachable(graph, start, goal)
        /\ Admissible(graph, goal, heuristic))
    => /\ astar_result.cost = dijkstra_result.cost
       /\ astar_result.cost = ShortestFrom(graph, start)[goal]

\* C3: when goal is reachable from start, the path breadth_first_search
\* returns has the least number of edges of any start-to-goal path, whatever
\* the weights. (Stated of the state breadth_first_search returns to, where
\* the caller goes on to depth_first_search.)
C3_BfsFewestEdges ==
    (Doing("dfs") /\ InGraph(start) /\ InGraph(goal)
        /\ Reachable(graph, start, goal))
    => /\ bfs_result.found
       /\ Len(bfs_result.path) - 1 = HopsFrom(graph, start)[goal]

\* the direct edge is taken although a two-edge route weighs less
C3_Witness ==
    /\ Returned(dijkstra_result) /\ bfs_result.found /\ dijkstra_result.found
    /\ Len(bfs_result.path) = 2 /\ Len(dijkstra_result.path) = 3
    /\ PathCost(graph, bfs_result.path) > dijkstra_result.cost

\* C4: with both endpoints in the graph, each of the four searches returns
\* found = true exactly when goal is reachable from start along the stored
\* (directed) adjacency.
C4_FoundIffReachable ==
    (InGraph(start) /\ InGraph(goal)) =>
        LET reachable == Reachable(graph, start, goal)
        IN  \A i \in 1..4 :
                Returned(SearchResults[i])
                    => (SearchResults[i].found <=> reachable)

\* a directed edge into start only: goal is a node, but out of reach
C4_Witness ==
    /\ Returned(astar_result) /\ InGraph(start) /\ InGraph(goal)
    /\ graph.directed /\ HasEdge(graph, goal, start)
    /\ ~astar_result.found /\ ~bfs_result.found
    /\ Len(dfs_result.visited) >= 2
    /\ heuristic # zero_heuristic

\* C5: a search that returns found = true returns a non-empty path from start
\* to goal whose consecutive pairs are stored edges and in which no node occurs
\* twice; a search that returns found = false returns the empty path.
C5_PathIsValid ==
    \A i \in 1..4 :
        Returned(SearchResults[i]) =>
            LET r == SearchResults[i]
            IN  IF r.found
                THEN /\ r.path # <<>>
                     /\ r.path[1] = start /\ r.path[Len(r.path)] = goal
                     /\ \A k \in 1..Len(r.path) - 1 :
                            HasEdge(graph, r.path[k], r.path[k + 1])
                     /\ NoDuplicates(r.path)
                ELSE r.path = <<>>

\* the four searches found a two-edge path in a directed graph that has a
\* cycle through start and goal
C5_Witness ==
    /\ Returned(astar_result)
    /\ \A i \in 1..4 : SearchResults[i].found /\ Len(SearchResults[i].path) = 3
    /\ graph.directed /\ HasEdge(graph, goal, start)

\* C6: when start or goal is not a node of the graph, every search returns
\* found = false, path = [], visited = [] and nodes_explored = 0 (dijkstra and
\* astar also cost = infinity), without traversing anything.
C6_AbsentEndpoint ==
    (~InGraph(start) \/ ~InGraph(goal)) =>
        /\ \A i \in 1..2 :
            Returned(SearchResults[i]) =>
                SearchResults[i] = [found |-> FALSE, path |-> <<>>,
                                    visited |-> <<>>, nodes_explored |-> 0]
        /\ \A i \in 3..4 :
            Returned(SearchResults[i]) =>
                SearchResults[i] = [found |-> FALSE, path |-> <<>>,
                                    cost |-> Inf, visited |-> <<>>,
                                    nodes_explored |-> 0]

\* start is a node with neighbors, goal is no node, all four have returned
C6_Witness ==
    /\ Returned(astar_result)
    /\ InGraph(start) /\ ~InGraph(goal)
    /\ graph.neighbors[start] # <<>>
    /\ ~bfs_result.found /\ ~dfs_result.found

TiedWithGoal ==
    IF dijkstra_result.found
    THEN {n \in NodeSet(graph) :
            /\ ShortestFrom(graph, start)[n] = dijkstra_result.cost
            /\ ~Contains(dijkstra_result.visited, n)}
    ELSE {}

C8_DrainIsSorted ==
    (under_test = "PriorityQueue" /\ values # <<>> /\ pq_is_empty(pq))
    => /\ Len(extracted) = Len(values)
       /\ IsSorted(extracted)
       /\ \A p \in Priorities : Count(extracted, p) = Count(values, p)
       /\ pq.heap = <<>>

\* four priorities, inserted out of order and with a duplicate, were drained
C8_Witness ==
    /\ under_test = "PriorityQueue" /\ pq_is_empty(pq)
    /\ Len(values) = 4 /\ Len(extracted) = 4
    /\ values[1] > values[2] /\ values[3] > values[4]
    /\ \E i \in 1..4, j \in 1..4 : i # j /\ values[i] = values[j]

\* the entries a heap holds, as the number of copies of each pair
Copies(heap, e) == Cardinality({i \in 1..Len(heap) : heap[i] = e})

\* C9: after any interleaving of insert and extract_min, extract_min on a
\* non-empty queue returns a pair of least priority among the pairs held, and
\* removes exactly that one pair, keeping every other pair. (Stated of the
\* call ExtractMin makes, in every state a test can make it in.)
C9_ExtractMinRemovesMinimum ==
    (under_test = "PriorityQueue" /\ ~pq_is_empty(pq)) =>
        LET r == extract_min(pq)
            item == r.item
        IN  /\ r.raised = ""
            /\ Copies(pq.heap, item) >= 1
            /\ \A i \in 1..Len(pq.heap) : item[1] <= pq.heap[i][1]
            /\ \A e \in Priorities \X Payloads :
                  Copies(r.pq.heap, e)
                    = Copies(pq.heap, e) - (IF e = item THEN 1 ELSE 0)
            /\ r.pq.size = pq.size - 1

\* an extract_min, after inserts and extract_mins were interleaved, that
\* returned a pair while three pairs stay in the heap
C9_Witness ==
    /\ under_test = "PriorityQueue"
    /\ last.op = "extract_min" /\ last.raised = ""
    /\ values = <<>> /\ pq.size = 3
    /\ last.value[1] < pq.heap[1][1]

\* C10: dequeue / peek on an empty Queue, pop / peek on an empty Stack and
\* extract_min / peek_min on an empty PriorityQueue raise IndexError instead
\* of returning a value, and leave the container empty, of size 0 and usable.
\* (Stated of the calls Dequeue, QueuePeek, Pop, StackPeek, ExtractMin and
\* PeekMin make, in every state where the container under test is empty.)
C10_EmptyRaises ==
    /\ (under_test = "Queue" /\ queue_is_empty(queue)) =>
            \A r \in {dequeue(queue), queue_peek(queue)} :
                /\ r.raised = "IndexError"
                /\ r.queue = [items |-> <<>>, size |-> 0]
                /\ dequeue(enqueue(r.queue, 1)).value = 1
    /\ (under_test = "Stack" /\ stack_is_empty(stack)) =>
            \A r \in {pop(stack), stack_peek(stack)} :
                /\ r.raised = "IndexError"
                /\ r.stack = [items |-> <<>>, size |-> 0]
                /\ pop(push(r.stack, 1)).value = 1
    /\ (under_test = "PriorityQueue" /\ pq_is_empty(pq)) =>
            \A r \in {extract_min(pq), peek_min(pq)} :
                /\ r.raised = "IndexError"
                /\ r.pq = [heap |-> <<>>, size |-> 0]
                /\ extract_min(insert(r.pq, 1, 0)).item = <<0, 1>>

\* extract_min raised on a PriorityQueue that had been filled and drained
C10_Witness ==
    /\ under_test = "PriorityQueue"
    /\ last.op = "extract_min" /\ last.raised = "IndexError"
    /\ Len(values) >= 2 /\ Len(extracted) = Len(values)

\* ------------------------------------------------------ a search, stepped
\* a caller builds a graph with up to RunCalls calls and calls one search on
\* one query; the search runs one loop iteration at a time
InitRun ==
    /\ \E d \in BOOLEAN : graph = NewGraph(d)
    /\ budget = RunCalls
    /\ plan = <<"build", "run">>
    /\ start = None /\ goal = None
    /\ NoSearch /\ NoContainers /\ tasks = <<>>

\* the call of a search: the code before its loop
Enter(name, locals) ==
    /\ Doing("run") /\ frame = NoFrame
    /\ frame' = [name |-> name, locals |-> locals]
    /\ UNCHANGED <<graphVars, plan, start, goal, bfs_result, dfs_result,
                   dijkstra_result, astar_result, containerVars, tasks>>

\* one test of the running search's while condition and one iteration
Iterate(name, locals) ==
    /\ frame.name = name /\ frame.locals.pc = "loop"
    /\ frame' = [name |-> name, locals |-> locals]
    /\ UNCHANGED <<graphVars, plan, start, goal, heuristic, bfs_result,
                   dfs_result, dijkstra_result, astar_result, containerVars,
                   tasks>>

BfsCall == Enter("bfs", bfs_begin(graph, start, goal)) /\ UNCHANGED heuristic
BfsLoop == Iterate("bfs", bfs_step(graph, frame.locals))
DfsCall == Enter("dfs", dfs_begin(graph, start, goal)) /\ UNCHANGED heuristic
DfsLoop == Iterate("dfs", dfs_step(graph, frame.locals))
DijkstraCall ==
    Enter("dijkstra", dijkstra_begin(graph, start, goal)) /\ UNCHANGED heuristic
DijkstraLoop == Iterate("dijkstra", dijkstra_step(graph, frame.locals))
AstarCall ==
    \E h \in Heuristics(graph) :
        heuristic' = h /\ Enter("astar", astar_begin(graph, start, goal, h))
AstarLoop == Iterate("astar", astar_step(graph, heuristic, frame.locals))

\* the running search returns its result record to the caller
Return ==
    /\ frame.locals.pc = "returned"
    /\ bfs_result' = IF frame.name = "bfs" THEN frame.locals.result
                     ELSE bfs_result
    /\ dfs_result' = IF frame.name = "dfs" THEN frame.locals.result
                     ELSE dfs_result
    /\ dijkstra_result' = IF frame.name = "dijkstra" THEN frame.locals.result
                          ELSE dijkstra_result
    /\ astar_result' = IF frame.name = "astar" THEN frame.locals.result
                       ELSE astar_result
    /\ frame' = NoFrame
    /\ plan' = Tail(plan)
    /\ UNCHANGED <<graphVars, start, goal, heuristic, containerVars,
                   tasks>>

\* what a called search does without any other party: its loop iterations
\* and its return
Execute == BfsLoop \/ DfsLoop \/ DijkstraLoop \/ AstarLoop \/ Return

NextRun ==
    \/ AddNode \/ AddEdge \/ Built
    \/ BfsCall \/ DfsCall \/ DijkstraCall \/ AstarCall
    \/ BfsLoop \/ DfsLoop \/ DijkstraLoop \/ AstarLoop \/ Return

\* the interpreter keeps executing a function that was called
SpecRun == InitRun /\ [][NextRun]_vars /\ WF_vars(Execute)

\* ------------------------------------------------------------ grid graphs
\* A grid position (r, c), 0-based, is the node value GridSize * r + c + 1:
\* its row-major index. The graph stores and compares it and never reads it.
Cells == 1..(GridSize * GridSize)
Cell(r, c) == GridSize * r + c + 1
Position(v) == <<(v - 1) \div GridSize, (v - 1) % GridSize>>
OnGrid(r, c) == 0 <= r /\ r < GridSize /\ 0 <= c /\ c < GridSize
Abs(x) == IF x < 0 THEN 0 - x ELSE x

\* twice the Manhattan distance
manhattan_distance_doubled(pos1, pos2) ==
    2 * (Abs(pos1[1] - pos2[1]) + Abs(pos1[2] - pos2[2]))

manhattan_distance(pos1, pos2) ==
    Abs(pos1[1] - pos2[1]) + Abs(pos1[2] - pos2[2])

\* def heuristic(pos1, pos2): return manhattan_distance(pos1, pos2), as
\* astar calls it: on a node value and the goal value
grid_heuristic(goal_value) ==
    [v \in Cells |-> manhattan_distance(Position(v), Position(goal_value))]

\* MazeProblem._build_graph: walls is the set of '#' cells
directions == <<<<0 - 1, 0>>, <<1, 0>>, <<0, 0 - 1>>, <<0, 1>>>>
\* for dr, dc in directions, from the d-th direction on
RECURSIVE link_neighbors(_, _, _, _, _)
link_neighbors(G, walls, r, c, d) ==
    IF Evaluated(G) /\ d > Len(directions) THEN G
    ELSE LET nr == r + directions[d][1]
             nc == c + directions[d][2]
         IN  IF OnGrid(nr, nc) /\ Cell(nr, nc) \notin walls
             THEN link_neighbors(add_edge(G, Cell(r, c), Cell(nr, nc), 1),
                                 walls, r, c, d + 1)
             ELSE link_neighbors(G, walls, r, c, d + 1)

\* for r in range(rows): for c in range(cols), from the k-th cell on
RECURSIVE build_graph_from(_, _, _)
build_graph_from(G, walls, k) ==
    IF Evaluated(G) /\ k = GridSize * GridSize THEN G
    ELSE LET r == k \div GridSize
             c == k % GridSize
         IN  IF Cell(r, c) \in walls
             THEN build_graph_from(G, walls, k + 1)
             ELSE build_graph_from(link_neighbors(G, walls, r, c, 1),
                                   walls, k + 1)
_build_graph(walls) == build_graph_from(NewGraph(FALSE), walls, 0)

\* TestAStar.setUp: the full grid, each cell joined to the cell on its right
\* and to the cell below
RECURSIVE setUp_from(_, _)
setUp_from(G, k) ==
    IF Evaluated(G) /\ k = GridSize * GridSize THEN G
    ELSE LET r == k \div GridSize
             c == k % GridSize
             G1 == IF c < GridSize - 1
                   THEN add_edge(G, Cell(r, c), Cell(r, c + 1), 1) ELSE G
             G2 == IF r < GridSize - 1
                   THEN add_edge(G1, Cell(r, c), Cell(r + 1, c), 1) ELSE G1
         IN  setUp_from(G2, k + 1)
TestAStar_setUp == setUp_from(NewGraph(FALSE), 0)

InitMaze ==
    /\ graph = NewGraph(FALSE) /\ budget = 0
    /\ plan = <<"maze", "solve_astar", "bfs", "dfs", "dijkstra">>
    /\ start = None /\ goal = None
    /\ NoSearch /\ NoContainers /\ tasks = <<>>

\* the query a caller puts to a grid graph
Asked(G) ==
    /\ graph' = G
    /\ \E start_value \in Cells, goal_value \in Cells :
        start' = start_value /\ goal' = goal_value
    /\ plan' = Tail(plan)
    /\ UNCHANGED <<budget, heuristic, frame, bfs_result, dfs_result,
                   dijkstra_result, astar_result, containerVars, tasks>>

\* MazeProblem(maze, start, goal)
NewMaze == Doing("maze") /\ \E walls \in SUBSET Cells : Asked(_build_graph(walls))

\* TestAStar.setUp
NewGrid == Doing("maze") /\ Asked(TestAStar_setUp)

\* solve_astar / test_optimal_path: astar with the Manhattan heuristic;
\* compare_algorithms goes on with solve_bfs, solve_dfs and solve_dijkstra,
\* which are the calls of Bfs, Dfs and Dijkstra
SolveAstar ==
    /\ Doing("solve_astar")
    /\ heuristic' = grid_heuristic(goal)
    /\ astar_result' = astar(graph, start, goal, grid_heuristic(goal))
    /\ plan' = Tail(plan)
    /\ UNCHANGED <<graphVars, start, goal, frame, bfs_result, dfs_result,
                   dijkstra_result, containerVars, tasks>>

NextMaze == NewMaze \/ NewGrid \/ SolveAstar \/ Bfs \/ Dfs \/ Dijkstra

SpecMaze == InitMaze /\ [][NextMaze]_vars

\* ------------------------------------------------------ the TestDijkstra graph
\* The edges TestDijkstra adds, in order, with A, B, C, D, E named 1..5 (the
\* order in which the graph creates them); the last one is the direct edge
\* of test_direct_path_not_shortest.
TestDijkstra_edges ==
    <<<<1, 2, 4>>, <<1, 3, 2>>, <<2, 4, 5>>, <<3, 4, 1>>, <<4, 5, 3>>,
      <<1, 5, 20>>>>

\* a test adds the edges one by one and may put a query after any of them
InitTest ==
    /\ graph = NewGraph(FALSE)
    /\ budget = Len(TestDijkstra_edges)
    /\ plan = <<"edges", "dijkstra">>
    /\ start = None /\ goal = None
    /\ NoSearch /\ NoContainers /\ tasks = <<>>

AddTestEdge ==
    /\ Doing("edges") /\ budget > 0
    /\ LET e == TestDijkstra_edges[Len(TestDijkstra_edges) - budget + 1]
       IN  graph' = add_edge(graph, e[1], e[2], e[3])
    /\ budget' = budget - 1
    /\ UNCHANGED <<searchVars, containerVars, tasks>>

TestQuery ==
    /\ Doing("edges")
    /\ \E start_value \in Values, goal_value \in Values :
        start' = start_value /\ goal' = goal_value
    /\ plan' = Tail(plan)
    /\ UNCHANGED <<graphVars, heuristic, frame, bfs_result, dfs_result,
                   dijkstra_result, astar_result, containerVars, tasks>>

NextTest == AddTestEdge \/ TestQuery \/ Dijkstra

SpecTest == InitTest /\ [][NextTest]_vars

\* the arguments a Graph test can pass to get_node / get_neighbors /
\* get_edge_weight, to add_node and to add_edge in the current state
NodeArgs == {value \in Passed : value <= Fresh(1)}
EdgeArgs ==
    {a \in Passed \X Passed \X Weights :
        /\ a[1] <= Fresh(1)
        /\ a[2] <= IF a[1] = Fresh(1) THEN Fresh(2) ELSE Fresh(1)}
\* a Graph test can make a mutating call / a query in the current state
Mutating == Doing("graph") /\ budget > 0
Querying == Doing("graph")
\* the graph add_edge(a) leaves
AfterAddEdge(a) == Graph_add_edge(graph, a[1], a[2], a[3]).graph
\* the weight a caller reads back, and the pairs an add_edge call writes
EdgeWeight(G, u, v) == Graph_get_edge_weight(G, u, v).value
Written(G, u, v) == IF G.directed THEN {<<u, v>>} ELSE {<<u, v>>, <<v, u>>}

\* C11: on an undirected graph, right after add_edge(u, v, w) both
\* get_edge_weight(u, v) and get_edge_weight(v, u) return w. (Stated of the
\* call CallAddEdge makes, in every state a test can make it in.)
C11_UndirectedRoundTrip ==
    (Mutating /\ ~graph.directed) =>
        \A a \in EdgeArgs :
            LET u == a[1]
                v == a[2]
                w == a[3]
                after == AfterAddEdge(a)
            IN  /\ EdgeWeight(after, u, v) = w
                /\ EdgeWeight(after, v, u) = w

\* add_edge(u, v, w) between two nodes an undirected graph already joined
\* with another weight, stored in the other orientation first
C11_Witness ==
    /\ ~graph.directed /\ last.op = "add_edge"
    /\ last.args[1] > last.args[2]
    /\ Len(graph.nodes) = 2 /\ budget = GraphCalls - 2
    /\ EdgeWeight(graph, last.args[2], last.args[1]) = last.args[3]

\* C12: on a directed graph add_edge(u, v, w) sets only u -> v: afterwards
\* get_edge_weight(u, v) is w, and get_edge_weight(v, u) is what it was before
\* the call, infinity unless an edge v -> u was added by a call of its own
\* (no edge is stored when the graph is created). (Stated of the call
\* CallAddEdge makes, in every state a test can make it in.)
C12_DirectedOneWay ==
    (Mutating /\ graph.directed) =>
        \A a \in EdgeArgs :
            LET u == a[1]
                v == a[2]
                w == a[3]
                after == AfterAddEdge(a)
            IN  /\ EdgeWeight(after, u, v) = w
                /\ u # v => EdgeWeight(after, v, u) = EdgeWeight(graph, v, u)
                /\ (u # v /\ ~HasEdge(graph, v, u)) =>
                        EdgeWeight(after, v, u) = Inf

\* a directed edge u -> v was added and v -> u reads as infinity
C12_Witness ==
    /\ graph.directed /\ last.op = "add_edge"
    /\ last.args[1] # last.args[2]
    /\ EdgeWeight(graph, last.args[1], last.args[2]) = last.args[3]
    /\ EdgeWeight(graph, last.args[2], last.args[1]) = Inf
    /\ Len(graph.nodes) >= 3

\* C13: re-adding an edge between a pair that has one replaces the stored
\* weight and creates no second entry: every neighbor list keeps its length
\* and order and lists no node twice; on an undirected graph the re-add, in
\* either orientation, overwrites both directions. (Stated of the call
\* CallAddEdge makes, in every state a test can make it in.)
C13_ReAddOverwrites ==
    Mutating =>
        \A a \in {e \in EdgeArgs : HasEdge(graph, e[1], e[2])} :
            LET u == a[1]
                v == a[2]
                w == a[3]
                after == AfterAddEdge(a)
            IN  /\ EdgeWeight(after, u, v) = w
                /\ ~graph.directed => EdgeWeight(after, v, u) = w
                /\ \A x \in Values :
                     /\ Graph_get_neighbors(after, x).value
                            = Graph_get_neighbors(graph, x).value
                     /\ NoDuplicates(Graph_get_neighbors(after, x).value)
                     /\ Len(after.neighbors[x]) = Len(graph.neighbors[x])

\* add_edge(2, 1, w) on an undirected graph where node 1 lists 2 before its
\* own self-loop: the entry for 2 was there before the call
C13_Witness ==
    /\ ~graph.directed /\ last.op = "add_edge"
    /\ last.args[1] = 2 /\ last.args[2] = 1
    /\ Graph_get_neighbors(graph, 1).value = <<2, 1>>
    /\ EdgeWeight(graph, 1, 2) = last.args[3]

\* the nodes add_edge(u, v, w) creates, in order
Created(G, u, v) ==
    (IF u \in NodeSet(G) THEN <<>> ELSE <<u>>)
        \o (IF v \in NodeSet(G) \/ v = u THEN <<>> ELSE <<v>>)

\* C14: add_edge(u, v, w) creates u and v when absent and changes nothing
\* else: the other nodes, their neighbor lists and every weight other than
\* u -> v (and v -> u when undirected) stay; a self-loop is stored like any
\* other edge. (Stated of the call CallAddEdge makes, in every state a test
\* can make it in.)
C14_AddEdgeFrame ==
    Mutating =>
        \A a \in EdgeArgs :
            LET u == a[1]
                v == a[2]
                w == a[3]
                after == AfterAddEdge(a)
            IN  /\ after.nodes = graph.nodes \o Created(graph, u, v)
                /\ after.directed = graph.directed
                /\ \A x \in Values, y \in Values :
                     EdgeWeight(after, x, y)
                        = IF <<x, y>> \in Written(graph, u, v) THEN w
                          ELSE EdgeWeight(graph, x, y)
                /\ \A x \in Values :
                     (\A y \in Values : <<x, y>> \notin Written(graph, u, v))
                        => after.neighbors[x] = graph.neighbors[x]

\* a self-loop was added on a new node of a graph that had an edge already
C14_Witness ==
    /\ last.op = "add_edge" /\ last.args[1] = last.args[2]
    /\ last.args[1] = Len(graph.nodes) /\ Len(graph.nodes) = 3
    /\ EdgeWeight(graph, 3, 3) = last.args[3]
    /\ HasEdge(graph, 1, 2)
    /\ Graph_get_neighbors(graph, 3).value = <<3>>

\* C15: add_node(value) for a value already in the graph returns the existing
\* node and changes nothing (node count, neighbor maps, weights); for a new
\* value it adds exactly one node, with no neighbor, and changes nothing else.
\* (Stated of the call CallAddNode makes, in every state a test can make it
\* in.)
C15_AddNodeIdempotent ==
    Mutating =>
        \A value \in NodeArgs :
            LET r == Graph_add_node(graph, value)
            IN  /\ r.raised = "" /\ r.value = value
                /\ IF value \in NodeSet(graph)
                   THEN r.graph = graph
                   ELSE /\ r.graph.nodes = Append(graph.nodes, value)
                        /\ r.graph.neighbors = graph.neighbors
                        /\ r.graph.neighbors[value] = <<>>
                        /\ r.graph.directed = graph.directed

\* add_node was called for a node that has neighbors
C15_Witness ==
    /\ last.op = "add_node"
    /\ Len(graph.neighbors[last.args[1]]) = 2
    /\ Len(graph.nodes) = 3

\* C16: the queries never raise and never change the graph; for a value that
\* is no node get_node returns None, get_neighbors the empty list and
\* get_edge_weight infinity, and get_edge_weight(u, v) is infinity too when
\* both are nodes and no edge u -> v is stored. (Stated of the calls
\* CallGetNode, CallGetNeighbors and CallGetEdgeWeight make, in every state a
\* test can make them in.)
C16_QueriesAreTotal ==
    Querying =>
        /\ \A value \in NodeArgs :
            /\ LET r == Graph_get_node(graph, value)
               IN  /\ r.raised = "" /\ r.graph = graph
                   /\ r.value = IF value \in NodeSet(graph) THEN value ELSE None
            /\ LET r == Graph_get_neighbors(graph, value)
               IN  /\ r.raised = "" /\ r.graph = graph
                   /\ value \notin NodeSet(graph) => r.value = <<>>
        /\ \A u \in NodeArgs, v \in NodeArgs :
            LET r == Graph_get_edge_weight(graph, u, v)
            IN  /\ r.raised = "" /\ r.graph = graph
                /\ (u \notin NodeSet(graph) \/ v \notin NodeSet(graph)
                        \/ ~HasEdge(graph, u, v)) => r.value = Inf

\* get_edge_weight(u, v) returned infinity in a directed graph that stores
\* v -> u only
C16_Witness ==
    /\ last.op = "get_edge_weight" /\ last.value = Inf
    /\ graph.directed /\ last.args[1] # last.args[2]
    /\ HasEdge(graph, last.args[2], last.args[1])
    /\ \A i \in 1..2 : last.args[i] \in NodeSet(graph)

\* the caller's next step is a call of one of the four searches
Searching == \E x \in {"bfs", "dfs", "dijkstra", "astar"} : Doing(x)

C18_UnreachableGoal ==
    (InGraph(start) /\ InGraph(goal) /\ ~Reachable(graph, start, goal)) =>
        LET reached == ReachFrom(graph, {start})
        IN  \A i \in 1..4 :
                Returned(SearchResults[i]) =>
                    LET r == SearchResults[i]
                    IN  /\ ~r.found /\ r.path = <<>>
                        /\ {r.visited[k] : k \in 1..Len(r.visited)} = reached
                        /\ NoDuplicates(r.visited)
                        /\ r.nodes_explored = Cardinality(reached)
                        /\ i >= 3 => r.cost = Inf

\* the four searches returned from a start with one neighbor, for a goal in
\* another part of the graph
C18_Witness ==
    /\ plan = <<>> /\ InGraph(start) /\ InGraph(goal)
    /\ ~Reachable(graph, start, goal)
    /\ \A i \in 1..4 : Len(SearchResults[i].visited) = 2
    /\ dijkstra_result.cost = Inf /\ astar_result.cost = Inf

\* The nodes a search removes from its frontier and processes (tests against
\* the goal, expands), in that order, from the locals L onwards: what bfs
\* dequeues, and what the others pop or extract and have not visited yet.
RECURSIVE bfs_expanded(_, _)
bfs_expanded(G, L) ==
    IF L.pc = "returned" \/ queue_is_empty(L.queue) THEN <<>>
    ELSE <<dequeue(L.queue).value>> \o bfs_expanded(G, bfs_step(G, L))

RECURSIVE dfs_expanded(_, _)
dfs_expanded(G, L) ==
    IF L.pc = "returned" \/ stack_is_empty(L.stack) THEN <<>>
    ELSE LET current == pop(L.stack).value
         IN  (IF current \in L.visited THEN <<>> ELSE <<current>>)
                \o dfs_expanded(G, dfs_step(G, L))

RECURSIVE dijkstra_expanded(_, _)
dijkstra_expanded(G, L) ==
    IF L.pc = "returned" \/ pq_is_empty(L.pq) THEN <<>>
    ELSE LET current == extract_min(L.pq).item[2]
         IN  (IF current \in L.visited THEN <<>> ELSE <<current>>)
                \o dijkstra_expanded(G, dijkstra_step(G, L))

RECURSIVE astar_expanded(_, _, _)
astar_expanded(G, h, L) ==
    IF L.pc = "returned" \/ pq_is_empty(L.pq) THEN <<>>
    ELSE LET current == extract_min(L.pq).item[2]
         IN  (IF current \in L.visited THEN <<>> ELSE <<current>>)
                \o astar_expanded(G, h, astar_step(G, h, L))

\* the result r lists the expanded nodes e, in order, and counts them
ListsExpanded(r, e) == r.visited = e /\ r.nodes_explored = Len(e)

\* dfs, dijkstra and astar list and count the nodes they expanded: each
\* result, in the state its search returns to (the caller runs bfs, dfs,
\* dijkstra and astar in this order)
OthersListExpanded ==
    /\ Doing("dijkstra") =>
         ListsExpanded(dfs_result,
                       dfs_expanded(graph, dfs_begin(graph, start, goal)))
    /\ Doing("astar") =>
         ListsExpanded(dijkstra_result,
                       dijkstra_expanded(graph, dijkstra_begin(graph, start, goal)))
    /\ (plan = <<>> /\ Returned(astar_result)) =>
         ListsExpanded(astar_result,
                       astar_expanded(graph, heuristic,
                                      astar_begin(graph, start, goal, heuristic)))

\* C19 as stated: in every result visited lists the nodes in the order they
\* were expanded (removed from the frontier and processed) and
\* nodes_explored is the number of nodes so expanded.
C19_VisitedIsExpansionOrder ==
    /\ Doing("dfs") =>
         ListsExpanded(bfs_result,
                       bfs_expanded(graph, bfs_begin(graph, start, goal)))
    /\ OthersListExpanded

\* C19 amended: dfs, dijkstra and astar list and count the nodes they
\* expanded, in order. bfs lists the nodes it discovered (enqueued), start
\* first and each once, every later one a neighbor of an expanded node; the
\* nodes it expanded are a prefix of that list, all of it when the goal is
\* not found and the part up to the goal when it is; nodes_explored counts
\* the discovered nodes.
C19_VisitedOrders ==
    /\ Doing("dfs") =>
         LET r == bfs_result
             v == r.visited
             e == bfs_expanded(graph, bfs_begin(graph, start, goal))
         IN  /\ NoDuplicates(v) /\ r.nodes_explored = Len(v)
             /\ Len(e) <= Len(v) /\ SubSeq(v, 1, Len(e)) = e
             /\ v # <<>> => v[1] = start
             /\ \A k \in 2..Len(v) :
                  \E j \in 1..Len(e) : HasEdge(graph, e[j], v[k])
             /\ IF r.found THEN e[Len(e)] = goal ELSE e = v
    /\ OthersListExpanded

\* bfs found the goal and lists a node after it, one it never dequeued, while
\* the other searches returned too
C19_Witness ==
    /\ plan = <<>> /\ bfs_result.found /\ Returned(astar_result)
    /\ bfs_result.visited[Len(bfs_result.visited)] # goal
    /\ bfs_result.nodes_explored = 3
    /\ dfs_result.nodes_explored = 2

\* C20: on every graph (cycles, self-loops, zero-weight edges, disconnected
\* parts, directed or not) and for every start and goal, a search that is
\* called eventually returns to its caller, and what it returns is the
\* result record of that search.
C20_SearchesTerminate ==
    /\ [][Return =>
            \A n \in {"bfs", "dfs", "dijkstra", "astar"} :
                (frame.name = n) =>
                    /\ frame.locals.result.found \in BOOLEAN
                    /\ (CASE n = "bfs" -> bfs_result'
                           [] n = "dfs" -> dfs_result'
                           [] n = "dijkstra" -> dijkstra_result'
                           [] n = "astar" -> astar_result')
                        = frame.locals.result]_vars
    /\ (frame.name # "") ~>
            (frame = NoFrame /\ \E i \in 1..4 : Returned(SearchResults[i]))

\* dijkstra returned after exhausting its frontier on an undirected graph
\* with a zero-weight edge (a cycle 1, 2, 1) and the goal in another part
C20_Witness ==
    /\ plan = <<>> /\ frame = NoFrame /\ Returned(dijkstra_result)
    /\ ~dijkstra_result.found /\ InGraph(goal)
    /\ HasEdge(graph, 2, 1) /\ EdgeWeight(graph, 1, 2) = 0
    /\ dijkstra_result.visited = <<1, 2>>

\* C21: astar called with zero_heuristic returns the record dijkstra returns
\* on the same graph, start and goal: the same found, path, cost, visited
\* and nodes_explored.
C21_ZeroHeuristicIsDijkstra ==
    (Returned(dijkstra_result) /\ Returned(astar_result)
            /\ heuristic = zero_heuristic) =>
        /\ astar_result.found = dijkstra_result.found
        /\ astar_result.path = dijkstra_result.path
        /\ astar_result.cost = dijkstra_result.cost
        /\ astar_result.visited = dijkstra_result.visited
        /\ astar_result.nodes_explored = dijkstra_result.nodes_explored

\* astar ran with zero_heuristic and found a path of three nodes after
\* visiting four
C21_Witness ==
    /\ plan = <<>> /\ Returned(astar_result) /\ heuristic = zero_heuristic
    /\ astar_result.found /\ Len(astar_result.path) = 3
    /\ astar_result.nodes_explored = 4

\* the graph is the full grid: every cell is a node
FullGrid == Len(graph.nodes) = GridSize * GridSize

\* C22: on a unit-weight 4-connected grid graph the Manhattan heuristic is
\* consistent and astar with it returns the least total weight of a path from
\* start to goal when there is one (found = false and infinity when there is
\* none); on the full 3 x 3 grid, from a corner to the opposite corner, it
\* returns found = true and cost = 4.
C22_ManhattanOnGrid ==
    (Returned(astar_result) /\ InGraph(start) /\ InGraph(goal)) =>
        /\ Consistent(graph, goal, heuristic)
        /\ IF Reachable(graph, start, goal)
           THEN /\ astar_result.found
                /\ astar_result.cost = ShortestFrom(graph, start)[goal]
                /\ PathCost(graph, astar_result.path) = astar_result.cost
           ELSE ~astar_result.found /\ astar_result.cost = Inf
        /\ (FullGrid /\ GridSize = 3 /\ start = Cell(0, 0) /\ goal = Cell(2, 2)) =>
                astar_result.found /\ astar_result.cost = 4

\* astar went from corner (0, 0) to corner (2, 2) of the full grid built by
\* TestAStar.setUp (node (0, 1) is created before node (1, 0))
C22_Witness ==
    /\ Returned(astar_result) /\ FullGrid
    /\ start = Cell(0, 0) /\ goal = Cell(2, 2)
    /\ graph.nodes[2] = Cell(0, 1) /\ graph.nodes[3] = Cell(1, 0)
    /\ astar_result.cost = 4
    /\ astar_result.path = <<1, 2, 5, 8, 9>>
    /\ astar_result.visited = <<1, 2, 4, 5, 7, 8, 6, 9>>

\* C23: on the undirected graph with edges A-B(4), A-C(2), B-D(5), C-D(1),
\* D-E(3) added in that order, dijkstra(A, E) returns path [A, C, D, E] with
\* cost 6, and the same after the direct edge A-E(20) is added.
C23_TestDijkstraScenario ==
    (Returned(dijkstra_result) /\ budget <= 1 /\ start = 1 /\ goal = 5) =>
        /\ dijkstra_result.found
        /\ dijkstra_result.path = <<1, 3, 4, 5>>
        /\ dijkstra_result.cost = 6

\* dijkstra(A, E) returned on the graph that has the direct edge A-E(20)
C23_Witness ==
    /\ Returned(dijkstra_result) /\ budget = 0 /\ start = 1 /\ goal = 5
    /\ EdgeWeight(graph, 1, 5) = 20 /\ EdgeWeight(graph, 5, 4) = 3
    /\ dijkstra_result.cost = 6
    /\ dijkstra_result.visited = <<1, 3, 4, 2, 5>>

UnitWeights(G) ==
    \A u \in NodeSet(G), v \in NodeSet(G) :
        HasEdge(G, u, v) => EdgeCost(G, u, v, FALSE) = 1

\* C24: on a graph whose edges all have weight 1, when goal is reachable
\* from start, breadth_first_search and dijkstra both find a path and the
\* two paths have the same number of nodes.
C24_BfsAndDijkstraSameLength ==
    (Returned(bfs_result) /\ Returned(dijkstra_result) /\ UnitWeights(graph)
            /\ InGraph(start) /\ InGraph(goal)
            /\ Reachable(graph, start, goal)) =>
        /\ bfs_result.found /\ dijkstra_result.found
        /\ Len(bfs_result.path) = Len(dijkstra_result.path)

\* bfs and dijkstra returned different paths of five nodes across a maze
C24_Witness ==
    /\ Returned(bfs_result) /\ Returned(dijkstra_result)
    /\ UnitWeights(graph) /\ ~FullGrid
    /\ bfs_result.found /\ dijkstra_result.found
    /\ bfs_result.path # dijkstra_result.path
    /\ Len(bfs_result.path) = 5 /\ Len(dijkstra_result.path) = 5

\* the elements given to a container and not yet given back, oldest first,
\* when every removal takes the newest (a Stack) or the oldest (a Queue)
RECURSIVE NotYetRemoved(_, _)
NotYetRemoved(h, newest_first) ==
    IF h = <<>> THEN <<>>
    ELSE LET e == h[Len(h)]
             before == NotYetRemoved(SubSeq(h, 1, Len(h) - 1), newest_first)
         IN  IF e.op \in {"enqueue", "push"} THEN Append(before, e.value)
             ELSE IF newest_first THEN SubSeq(before, 1, Len(before) - 1)
             ELSE Tail(before)

\* C25: Queue is FIFO: after any interleaving of enqueue and dequeue, a
\* dequeue on a non-empty Queue returns the oldest enqueued element that was
\* not yet dequeued. (Stated of the call Dequeue makes, in every state a test
\* can make it in.)
C25_QueueIsFifo ==
    (under_test = "Queue" /\ ~queue_is_empty(queue)) =>
        LET r == dequeue(queue)
        IN  /\ r.raised = ""
            /\ NotYetRemoved(history, FALSE) # <<>>
            /\ r.value = Head(NotYetRemoved(history, FALSE))

\* enqueues and dequeues were interleaved, and the last dequeue returned the
\* second element enqueued, which differs from the first and from the third
C25_Witness ==
    /\ under_test = "Queue" /\ last.op = "dequeue" /\ last.raised = ""
    /\ Len(history) = 5
    /\ history[1].op = "enqueue" /\ history[2].op = "enqueue"
    /\ history[3].op = "dequeue" /\ history[4].op = "enqueue"
    /\ history[1].value # history[2].value
    /\ history[4].value # history[2].value
    /\ last.value = history[2].value
    /\ queue.size = 1

\* C26: Stack is LIFO: after any interleaving of push and pop, a pop on a
\* non-empty Stack returns the most recently pushed element that was not yet
\* popped. (Stated of the call Pop makes, in every state a test can make it
\* in.)
C26_StackIsLifo ==
    (under_test = "Stack" /\ ~stack_is_empty(stack)) =>
        LET held == NotYetRemoved(history, TRUE)
            r == pop(stack)
        IN  /\ r.raised = ""
            /\ held # <<>>
            /\ r.value = held[Len(held)]

\* after push a, push b, pop, push b, pop, the third pop returned a, which
\* is neither the last element pushed nor the last one popped
C26_Witness ==
    /\ under_test = "Stack" /\ last.op = "pop" /\ last.raised = ""
    /\ Len(history) = 6
    /\ history[1].op = "push" /\ history[2].op = "push"
    /\ history[3].op = "pop" /\ history[4].op = "push"
    /\ history[5].op = "pop" /\ history[6].op = "pop"
    /\ history[1].value # history[2].value
    /\ history[4].value = history[2].value
    /\ last.value = history[1].value
    /\ stack.size = 0

\* C27: on a non-empty Queue, Stack or PriorityQueue, peek / peek_min returns
\* the element the next dequeue / pop / extract_min would return, and leaves
\* the size and the contents of the container as they were. (Stated of the
\* calls QueuePeek, StackPeek and PeekMin make, in every state a test can
\* make them in.)
C27_PeekIsNextRemoval ==
    /\ (under_test = "Queue" /\ ~queue_is_empty(queue)) =>
            LET r == queue_peek(queue)
            IN  /\ r.raised = ""
                /\ r.value = dequeue(r.queue).value
                /\ dequeue(r.queue).raised = ""
                /\ r.queue = queue
    /\ (under_test = "Stack" /\ ~stack_is_empty(stack)) =>
            LET r == stack_peek(stack)
            IN  /\ r.raised = ""
                /\ r.value = pop(r.stack).value
                /\ pop(r.stack).raised = ""
                /\ r.stack = stack
    /\ (under_test = "PriorityQueue" /\ ~pq_is_empty(pq)) =>
            LET r == peek_min(pq)
            IN  /\ r.raised = ""
                /\ r.item = extract_min(r.pq).item
                /\ extract_min(r.pq).raised = ""
                /\ r.pq = pq

\* a peek on a Queue of three elements whose front and rear differ
C27_Witness ==
    /\ under_test = "Queue" /\ last.op = "peek" /\ last.raised = ""
    /\ queue.size = 3 /\ Removals = 2
    /\ queue.items[1] # queue.items[3]
    /\ last.value = queue.items[1]

\* C28: after any sequence of operations on a Queue, a Stack or a
\* PriorityQueue, size() is the number of insertions that succeeded minus the
\* number of removals that succeeded, and is_empty() is true exactly when
\* size() is 0.
C28_SizeCountsElements ==
    /\ under_test = "Queue" =>
            /\ queue_size(queue) = Insertions - Removals
            /\ queue_is_empty(queue) <=> (queue_size(queue) = 0)
    /\ under_test = "Stack" =>
            /\ stack_size(stack) = Insertions - Removals
            /\ stack_is_empty(stack) <=> (stack_size(stack) = 0)
    /\ under_test = "PriorityQueue" =>
            /\ pq_size(pq) = Insertions - Removals
            /\ pq_is_empty(pq) <=> (pq_size(pq) = 0)

\* a Queue of two elements after four enqueues and two dequeues, the first
\* dequeue having emptied it; the last call was a peek
C28_Witness ==
    /\ under_test = "Queue" /\ Insertions = 4 /\ Removals = 2
    /\ history[2].op = "dequeue" /\ history[4].op = "dequeue"
    /\ queue_size(queue) = 2 /\ ~queue_is_empty(queue)
    /\ last.op = "peek"

\* ----------------------------------------------------------- scheduling
TaskNames == 1..MaxTasks
Durations == 1..MaxDuration

\* an Optional value: Python's None, or a value
NoneValue == [is_none |-> TRUE, value |-> <<>>]
Some(x) == [is_none |-> FALSE, value |-> x]

\* Task: dependencies holds the Task objects by their names
Task(name, duration) ==
    [name |-> name, duration |-> duration, dependencies |-> <<>>]

\* a SchedulingProblem is [tasks, graph]
NewSchedulingProblem == [tasks |-> <<>>, graph |-> NewGraph(TRUE)]

add_task(P, name, duration) ==
    IF ~Contains(Keys(P.tasks), name)
    THEN [tasks |-> Store(P.tasks, name, Task(name, duration)),
          graph |-> add_node(P.graph, name)]
    ELSE P

\* add_dependency gives [raised, problem]
add_dependency(P, task_name, depends_on) ==
    IF ~Contains(Keys(P.tasks), task_name) \/ ~Contains(Keys(P.tasks), depends_on)
    THEN [raised |-> "ValueError", problem |-> P]
    ELSE LET task == Lookup(P.tasks, task_name)
         IN  [raised |-> "",
              problem |->
                [tasks |-> Store(P.tasks, task_name,
                            [task EXCEPT !.dependencies = Append(@, depends_on)]),
                 graph |-> add_edge(P.graph, depends_on, task_name, 1)]]

\* {name: 0 for name in self.tasks} has these keys
NameSet(names) == {names[i] : i \in 1..Len(names)}

\* for neighbor in neighbors: in_degree[neighbor.value] += 1
RECURSIVE count_neighbors(_, _, _)
count_neighbors(in_degree, neighbors, j) ==
    IF Evaluated(in_degree) /\ j > Len(neighbors) THEN in_degree
    ELSE count_neighbors(Put(in_degree, neighbors[j], in_degree[neighbors[j]] + 1),
                         neighbors, j + 1)

\* for task_name in self.tasks: neighbors = self.graph.get_neighbors(task_name)
RECURSIVE count_in_degree(_, _, _)
count_in_degree(P, in_degree, i) ==
    IF Evaluated(in_degree) /\ i > Len(P.tasks) THEN in_degree
    ELSE count_in_degree(P,
            count_neighbors(in_degree,
                            Graph_get_neighbors(P.graph, Keys(P.tasks)[i]).value, 1),
            i + 1)

\* for task_name, degree in in_degree.items(): if degree == 0: enqueue
RECURSIVE enqueue_ready(_, _, _, _)
enqueue_ready(names, in_degree, q, i) ==
    IF i > Len(names) THEN q
    ELSE enqueue_ready(names, in_degree,
                       IF in_degree[names[i]] = 0 THEN enqueue(q, names[i]) ELSE q,
                       i + 1)

\* for neighbor in neighbors: in_degree -= 1; if it is 0: enqueue
\* L is [in_degree, queue, result]
RECURSIVE release_neighbors(_, _, _)
release_neighbors(L, neighbors, j) ==
    IF Evaluated(L) /\ j > Len(neighbors) THEN L
    ELSE LET neighbor == neighbors[j]
             degree == L.in_degree[neighbor] - 1
         IN  release_neighbors(
                [L EXCEPT !.in_degree = Put(@, neighbor, degree),
                          !.queue = IF degree = 0 THEN enqueue(@, neighbor) ELSE @],
                neighbors, j + 1)

\* while not queue.is_empty()
RECURSIVE kahn_loop(_, _)
kahn_loop(P, L) ==
    IF queue_is_empty(L.queue) THEN L
    ELSE LET r == dequeue(L.queue)
             current == r.value
             L1 == [L EXCEPT !.queue = r.queue,
                             !.result = Append(@, current)]
         IN  kahn_loop(P,
                release_neighbors(L1,
                    Graph_get_neighbors(P.graph, current).value, 1))

kahn(P) ==
    LET names == Keys(P.tasks)
        in_degree == count_in_degree(P, [name \in NameSet(names) |-> 0], 1)
    IN  kahn_loop(P, [in_degree |-> in_degree,
                      queue |-> enqueue_ready(names, in_degree, NewQueue, 1),
                      result |-> <<>>])

\* topological_sort without the final length test
topological_sort_unchecked(P) == Some(kahn(P).result)

topological_sort(P) ==
    LET result == kahn(P).result
    IN  IF Len(result) # Len(P.tasks) THEN NoneValue ELSE Some(result)

\* for dep in task.dependencies: earliest_start[task_name] = max(.., dep_end)
RECURSIVE start_after(_, _, _, _, _)
start_after(P, earliest_start, task_name, dependencies, j) ==
    IF Evaluated(earliest_start) /\ j > Len(dependencies) THEN earliest_start
    ELSE LET dep == Lookup(P.tasks, dependencies[j])
             dep_end == earliest_start[dep.name] + dep.duration
         IN  start_after(P,
                IF dep_end > earliest_start[task_name]
                THEN Put(earliest_start, task_name, dep_end) ELSE earliest_start,
                task_name, dependencies, j + 1)

\* for task_name in order
RECURSIVE earliest_starts(_, _, _, _)
earliest_starts(P, earliest_start, order, i) ==
    IF Evaluated(earliest_start) /\ i > Len(order) THEN earliest_start
    ELSE earliest_starts(P,
            start_after(P, earliest_start, order[i],
                        Lookup(P.tasks, order[i]).dependencies, 1),
            order, i + 1)

\* for task_name in self.tasks: total_duration = max(total_duration, end_time)
RECURSIVE total_duration_from(_, _, _, _)
total_duration_from(P, earliest_start, total_duration, i) ==
    IF i > Len(P.tasks) THEN total_duration
    ELSE LET task == P.tasks[i][2]
             end_time == earliest_start[task.name] + task.duration
         IN  total_duration_from(P, earliest_start,
                IF end_time > total_duration THEN end_time ELSE total_duration,
                i + 1)

\* the dictionary returned, as its <<key, value>> pairs in order
calculate_critical_path(P) ==
    LET order == topological_sort(P)
    IN  IF order.is_none
        THEN << <<"error", Some("Circular dependency detected")>>,
                <<"order", NoneValue>>,
                <<"earliest_start", NoneValue>>,
                <<"total_duration", NoneValue>>,
                <<"critical_path", NoneValue>> >>
        ELSE LET names == Keys(P.tasks)
                 earliest_start ==
                    earliest_starts(P, [name \in NameSet(names) |-> 0],
                                    order.value, 1)
             IN  << <<"order", order>>,
                    <<"earliest_start",
                      Some(AsSeq([i \in 1..Len(names) |->
                                    <<names[i], earliest_start[names[i]]>>]))>>,
                    <<"total_duration",
                      Some(total_duration_from(P, earliest_start, 0, 1))>>,
                    <<"error", NoneValue>> >>

\* the eight tasks of create_software_project, named 1..8 in creation order,
\* with their durations, and its eight dependencies
software_tasks == <<8, 16, 12, 24, 20, 16, 4, 8>>
software_dependencies ==
    << <<2, 1>>, <<3, 2>>, <<4, 3>>, <<5, 2>>, <<6, 4>>, <<6, 5>>, <<7, 6>>,
       <<8, 6>> >>

\* the k-th call of create_software_project on the problem P it builds
create_software_project(P, k) ==
    IF k <= Len(software_tasks) THEN add_task(P, k, software_tasks[k])
    ELSE LET d == software_dependencies[k - Len(software_tasks)]
         IN  add_dependency(P, d[1], d[2]).problem

\* a caller makes up to ScheduleCalls add_task / add_dependency calls on a new
\* SchedulingProblem, or the calls of create_software_project one by one, and
\* asks for the order and the critical path in between; last records the call
\* and its outcome
SoftwareCalls == Len(software_tasks) + Len(software_dependencies)
problem == [tasks |-> tasks, graph |-> graph]

InitSchedule ==
    /\ graph = NewGraph(TRUE)
    /\ \/ plan = <<>> /\ budget = ScheduleCalls
       \/ plan = <<"create_software_project">> /\ budget = SoftwareCalls
    /\ start = None /\ goal = None
    /\ NoSearch /\ NoContainers /\ tasks = <<>>

ScheduleFrame == UNCHANGED <<searchVars, under_test, queue, stack, pq, values,
                             extracted, history>>

AddTask ==
    /\ plan = <<>> /\ budget > 0
    /\ \E name \in TaskNames, duration \in Durations :
        /\ name <= Len(tasks) + 1
        /\ LET P == add_task(problem, name, duration)
           IN  tasks' = P.tasks /\ graph' = P.graph
    /\ last' = [op |-> "add_task", raised |-> "", value |-> NoneValue]
    /\ budget' = budget - 1
    /\ ScheduleFrame

AddDependency ==
    /\ plan = <<>> /\ budget > 0
    /\ \E task_name \in TaskNames, depends_on \in TaskNames :
        /\ task_name <= Len(tasks) + 1 /\ depends_on <= Len(tasks) + 1
        /\ LET r == add_dependency(problem, task_name, depends_on)
           IN  /\ tasks' = r.problem.tasks /\ graph' = r.problem.graph
               /\ last' = [op |-> "add_dependency", raised |-> r.raised,
                           value |-> NoneValue]
    /\ budget' = budget - 1
    /\ ScheduleFrame

CreateSoftwareProject ==
    /\ Doing("create_software_project") /\ budget > 0
    /\ LET P == create_software_project(problem, SoftwareCalls - budget + 1)
       IN  tasks' = P.tasks /\ graph' = P.graph
    /\ last' = [op |-> "create_software_project", raised |-> "",
                value |-> NoneValue]
    /\ budget' = budget - 1
    /\ ScheduleFrame

TopologicalSort ==
    /\ last' = [op |-> "topological_sort", raised |-> "",
                value |-> topological_sort(problem)]
    /\ UNCHANGED <<graphVars, tasks>>
    /\ ScheduleFrame

CalculateCriticalPath ==
    /\ last' = [op |-> "calculate_critical_path", raised |-> "",
                value |-> calculate_critical_path(problem)]
    /\ UNCHANGED <<graphVars, tasks>>
    /\ ScheduleFrame

NextSchedule ==
    \/ AddTask \/ AddDependency \/ CreateSoftwareProject
    \/ TopologicalSort \/ CalculateCriticalPath

SpecSchedule == InitSchedule /\ [][NextSchedule]_vars

\* the dependencies as the tasks record them
TaskSet(T) == {T[i][1] : i \in 1..Len(T)}
DependsOn(T, name) ==
    LET dependencies == Lookup(T, name).dependencies
    IN  {dependencies[j] : j \in 1..Len(dependencies)}
RECURSIVE Upstream(_, _, _)
Upstream(T, S, k) ==
    IF k = 0 THEN S
    ELSE Upstream(T, S \cup UNION {DependsOn(T, m) : m \in S}, k - 1)
Cyclic(T) ==
    \E name \in TaskSet(T) : name \in Upstream(T, DependsOn(T, name), Len(T))
IndexOf(seq, x) == CHOOSE i \in 1..Len(seq) : seq[i] = x

\* C29: topological_sort returns None exactly when the dependencies contain
\* a cycle (a task that depends on itself included); otherwise it returns a
\* list that has every task exactly once, each task after every task it
\* depends on.
C29_TopologicalSort ==
    last.op = "topological_sort" =>
        /\ last.value.is_none <=> Cyclic(tasks)
        /\ ~last.value.is_none =>
            LET order == last.value.value
            IN  /\ Len(order) = Len(tasks)
                /\ {order[i] : i \in 1..Len(order)} = TaskSet(tasks)
                /\ \A name \in TaskSet(tasks) :
                    \A dep \in DependsOn(tasks, name) :
                        IndexOf(order, dep) < IndexOf(order, name)

\* the order returned for four tasks where the task created first depends on
\* the one created last, through two different tasks
C29_Witness ==
    /\ last.op = "topological_sort" /\ ~last.value.is_none
    /\ Len(tasks) = 4
    /\ DependsOn(tasks, 1) = {2, 3}
    /\ DependsOn(tasks, 2) = {4} /\ DependsOn(tasks, 3) = {4}
    /\ last.value.value[1] = 4 /\ last.value.value[4] = 1

KeySet(d) == {d[i][1] : i \in 1..Len(d)}

\* C30: calculate_critical_path returns a dictionary with the keys 'order',
\* 'earliest_start', 'total_duration' and 'critical_path', when the
\* dependencies are acyclic and when a circular dependency is detected.
C30_CriticalPathKeys ==
    last.op = "calculate_critical_path" =>
        {"order", "earliest_start", "total_duration", "critical_path"}
            \subseteq KeySet(last.value)

\* the locals of a dijkstra call from L onwards, one record for each test of
\* the while condition
RECURSIVE dijkstra_trace(_, _)
dijkstra_trace(G, L) ==
    IF L.pc = "returned" THEN <<>>
    ELSE <<L>> \o dijkstra_trace(G, dijkstra_step(G, L))

\* C31: in a dijkstra run on a graph with non-negative weights the nodes are
\* finalized in non-decreasing distance order, and the distance a node has
\* when it is finalized is its least distance from start and is the distance
\* it has at every later point of the run. (Stated of the state dijkstra
\* returns to, where the caller goes on to astar.)
C31_FinalizedInDistanceOrder ==
    (Doing("astar") /\ InGraph(start) /\ InGraph(goal)
        /\ NonNegative(graph)) =>
      LET t == dijkstra_trace(graph, dijkstra_begin(graph, start, goal))
          r == dijkstra_result
          least == ShortestFrom(graph, start)
      IN  /\ \A i \in 1..Len(t) - 1 :
              \A n \in t[i + 1].visited \ t[i].visited :
                  t[i].distance[n] = least[n]
          /\ \A i \in 1..Len(t) :
              \A n \in t[i].visited : t[i].distance[n] = least[n]
          /\ r.found => r.cost = least[goal]
          /\ \A k \in 1..Len(r.visited) - 1 :
              least[r.visited[k]] <= least[r.visited[k + 1]]

\* four nodes were finalized at the distances 0, 0, 0 and 1; the third one
\* had been queued at distance 1 through its edge from start
C31_Witness ==
    /\ Returned(dijkstra_result) /\ dijkstra_result.found
    /\ Len(dijkstra_result.visited) = 4 /\ dijkstra_result.cost = 1
    /\ LET n == dijkstra_result.visited[3]
       IN  /\ HasEdge(graph, start, n)
           /\ EdgeCost(graph, start, n, FALSE) = 1
           /\ ShortestFrom(graph, start)[n] = 0

\* the locals of a depth_first_search call from L onwards, one record for
\* each test of the while condition
RECURSIVE dfs_trace(_, _)
dfs_trace(G, L) ==
    IF L.pc = "returned" THEN <<>>
    ELSE <<L>> \o dfs_trace(G, dfs_step(G, L))

\* the first element of the sequence s that is not in the set S
FirstOutside(s, S) == s[Min({i \in 1..Len(s) : s[i] \notin S})]

\* C32: in depth_first_search, after a non-goal node c is visited, if c has
\* an unvisited neighbor then the next node appended to visited is the first
\* unvisited neighbor of c in the order of c's adjacency.
C32_DfsDescendsToFirstNeighbor ==
    (Returned(dfs_result) /\ InGraph(start) /\ InGraph(goal)) =>
      LET t == dfs_trace(graph, dfs_begin(graph, start, goal))
          v == dfs_result.visited
      IN  \A i \in 1..Len(t) - 1 :
              LET k == Len(t[i + 1].visited_order)
                  c == t[i + 1].visited_order[k]
                  nbrs == get_neighbors(graph, c)
              IN  (/\ k = Len(t[i].visited_order) + 1
                   /\ \E j \in 1..Len(nbrs) : nbrs[j] \notin t[i + 1].visited)
                  => /\ k < Len(v)
                     /\ v[k + 1] = FirstOutside(nbrs, t[i + 1].visited)

\* the search went from a node to its third neighbor because the first two
\* had been visited, and left an unvisited fourth neighbor for later
C32_Witness ==
    /\ Returned(dfs_result) /\ Len(dfs_result.visited) >= 5
    /\ \E k \in 3..Len(dfs_result.visited) - 1 :
        LET v == dfs_result.visited
            nbrs == get_neighbors(graph, v[k])
            before == {v[j] : j \in 1..k}
        IN  /\ Len(nbrs) = 4
            /\ nbrs[1] \in before /\ nbrs[2] \in before
            /\ v[k + 1] = nbrs[3] /\ nbrs[4] \notin before

\* the node that has no parent at the end of at most k parent links from n,
\* None when there are more links than that
RECURSIVE FollowLinks(_, _, _)
FollowLinks(parent, n, k) ==
    IF parent[n] = None THEN n
    ELSE IF k = 0 \/ parent[n] \notin DOMAIN parent THEN None
    ELSE FollowLinks(parent, parent[n], k - 1)

\* C33: in depth_first_search a node's parent is assigned the first time the
\* node is discovered and is never overwritten, also when the node is pushed
\* again from other nodes before it is popped; the parent of start stays
\* None, so the parent links from any discovered node, the goal included,
\* end at start, and a found path runs from start to goal.
C33_DfsParentAssignedOnce ==
    (Returned(dfs_result) /\ InGraph(start) /\ InGraph(goal)) =>
      LET t == dfs_trace(graph, dfs_begin(graph, start, goal))
          r == dfs_result
      IN  /\ \A i \in 1..Len(t) - 1 :
              \A n \in DOMAIN t[i].parent :
                  /\ n \in DOMAIN t[i + 1].parent
                  /\ t[i + 1].parent[n] = t[i].parent[n]
          /\ \A i \in 1..Len(t) :
              /\ t[i].parent[start] = None
              /\ \A n \in DOMAIN t[i].parent :
                  FollowLinks(t[i].parent, n,
                              Cardinality(DOMAIN t[i].parent)) = start
          /\ r.found => r.path[1] = start /\ r.path[Len(r.path)] = goal

\* a node was on the stack twice, unvisited, pushed the second time from a
\* node that is not its parent, and the goal was found later through it
C33_Witness ==
    /\ Returned(dfs_result) /\ dfs_result.found
    /\ LET t == dfs_trace(graph, dfs_begin(graph, start, goal))
       IN  \E i \in 1..Len(t) :
            \E n \in DOMAIN t[i].parent :
                /\ n \notin t[i].visited
                /\ Count(t[i].stack.items, n) >= 2
                /\ t[i].stack.items[1] = n
                /\ t[i].parent[n] #
                     t[i].visited_order[Len(t[i].visited_order)]
                /\ Contains(dfs_result.path, n)

\* the locals of a breadth_first_search call from L onwards, one record for
\* each test of the while condition
RECURSIVE bfs_trace(_, _)
bfs_trace(G, L) ==
    IF L.pc = "returned" THEN <<>>
    ELSE <<L>> \o bfs_trace(G, bfs_step(G, L))

\* C34: in breadth_first_search visited starts with start and lists each
\* discovered node once, in the order in which the nodes were enqueued, the
\* nodes still in the queue when the goal is dequeued included; no node is
\* enqueued twice; the number of edges from start is non-decreasing along
\* visited.
C34_BfsVisitedIsEnqueueOrder ==
    (Returned(bfs_result) /\ InGraph(start) /\ InGraph(goal)) =>
      LET t == bfs_trace(graph, bfs_begin(graph, start, goal))
          v == bfs_result.visited
          hops == HopsFrom(graph, start)
      IN  /\ v[1] = start /\ NoDuplicates(v)
          /\ v = t[Len(t)].visited_order
          /\ \A i \in 1..Len(t) :
              LET order == t[i].visited_order
                  waiting == t[i].queue.items
              IN  /\ Len(order) = (i - 1) + Len(waiting)
                  /\ SubSeq(order, i, Len(order)) = waiting
                  /\ SubSeq(v, 1, Len(order)) = order
          /\ \A k \in 1..Len(v) - 1 : hops[v[k]] <= hops[v[k + 1]]

\* the goal was dequeued at two edges from start while two nodes were still
\* in the queue; they are the last two of visited, one of them farther away
\* than the goal
C34_Witness ==
    /\ Returned(bfs_result) /\ bfs_result.found
    /\ Len(bfs_result.path) = 3
    /\ LET v == bfs_result.visited
           hops == HopsFrom(graph, start)
       IN  /\ Len(v) >= 6
           /\ v[Len(v) - 2] = goal
           /\ hops[v[Len(v)]] = 3

\* C35: after every completed insert or extract_min on a PriorityQueue, in
\* any interleaving, the entry at every index i > 0 of the heap array has a
\* priority greater than or equal to the priority of its parent at index
\* (i - 1) div 2, and the size counter equals the length of the heap array.
C35_HeapOrder ==
    under_test = "PriorityQueue" =>
        /\ pq.size = Len(pq.heap)
        /\ \A i \in 1..(Len(pq.heap) - 1) :
            pq.heap[i + 1][1] >= pq.heap[((i - 1) \div 2) + 1][1]

\* an extract_min that followed inserts and an earlier extract_min left three
\* entries whose array is not sorted: the right child of the root has a
\* lower priority than the left one
C35_Witness ==
    /\ under_test = "PriorityQueue"
    /\ last.op = "extract_min" /\ last.raised = ""
    /\ Removals >= 2 /\ Len(pq.heap) = 3
    /\ pq.heap[1][1] < pq.heap[3][1] /\ pq.heap[3][1] < pq.heap[2][1]

\* C36: for dijkstra, and for astar with any heuristic, admissible or not,
\* on a graph with non-negative weights, whenever found is true the returned
\* cost is the sum of the stored weights of the consecutive edges of the
\* returned path.
C36_CostIsPathWeight ==
    NonNegative(graph) =>
        /\ (Returned(dijkstra_result) /\ dijkstra_result.found) =>
                dijkstra_result.cost = PathCost(graph, dijkstra_result.path)
        /\ (Returned(astar_result) /\ astar_result.found) =>
                astar_result.cost = PathCost(graph, astar_result.path)

\* a heuristic that is not admissible led astar to a path of two edges or
\* more that costs more than the one dijkstra returned
C36_Witness ==
    /\ Returned(astar_result) /\ astar_result.found /\ dijkstra_result.found
    /\ ~Admissible(graph, goal, heuristic)
    /\ Len(astar_result.path) >= 3
    /\ astar_result.cost > dijkstra_result.cost

\* the locals of an astar call from L onwards, one record for each test of
\* the while condition
RECURSIVE astar_trace(_, _, _)
astar_trace(G, h, L) ==
    IF L.pc = "returned" THEN <<>>
    ELSE <<L>> \o astar_trace(G, h, astar_step(G, h, L))

\* C37: in every result of each of the four searches visited holds no value
\* twice and nodes_explored is the length of visited; the stale duplicate
\* entries of the frontier of dfs, dijkstra and astar are skipped and not
\* recorded again.
C37_VisitedHasNoDuplicates ==
    \A i \in 1..4 :
        Returned(SearchResults[i]) =>
            /\ NoDuplicates(SearchResults[i].visited)
            /\ SearchResults[i].nodes_explored = Len(SearchResults[i].visited)

\* the four searches returned after dfs had popped, and dijkstra and astar
\* had extracted, an entry of a node visited before
C37_Witness ==
    /\ plan = <<>> /\ Len(bfs_result.visited) = 3
    /\ LET t == dfs_trace(graph, dfs_begin(graph, start, goal))
       IN  \E i \in 1..Len(t) :
            /\ ~stack_is_empty(t[i].stack)
            /\ pop(t[i].stack).value \in t[i].visited
    /\ LET t == dijkstra_trace(graph, dijkstra_begin(graph, start, goal))
       IN  \E i \in 1..Len(t) :
            /\ ~pq_is_empty(t[i].pq)
            /\ extract_min(t[i].pq).item[2] \in t[i].visited
    /\ LET t == astar_trace(graph, heuristic,
                            astar_begin(graph, start, goal, heuristic))
       IN  \E i \in 1..Len(t) :
            /\ ~pq_is_empty(t[i].pq)
            /\ extract_min(t[i].pq).item[2] \in t[i].visited

\* C38: when start equals goal and that node exists, every search returns
\* found = true with path = [start], visited = [start] and
\* nodes_explored = 1, and dijkstra and astar return the cost 0, whatever
\* edges the node has, a self-loop included.
C38_StartIsGoal ==
    (start = goal /\ InGraph(start)) =>
        /\ \A i \in 1..4 :
            Returned(SearchResults[i]) =>
                /\ SearchResults[i].found
                /\ SearchResults[i].path = <<start>>
                /\ SearchResults[i].visited = <<start>>
                /\ SearchResults[i].nodes_explored = 1
        /\ Returned(dijkstra_result) => dijkstra_result.cost = 0
        /\ Returned(astar_result) => astar_result.cost = 0

\* the four searches returned for a start that is the goal, has a self-loop
\* of negative weight and an edge to another node, under a heuristic that
\* is not zero at the goal
C38_Witness ==
    /\ plan = <<>> /\ start = goal /\ InGraph(start)
    /\ HasEdge(graph, start, start)
    /\ EdgeCost(graph, start, start, FALSE) < 0
    /\ \E n \in NodeSet(graph) : n # start /\ HasEdge(graph, start, n)
    /\ heuristic[start] > 0
    /\ astar_result.found /\ bfs_result.found

\* ------------------------------------------------- what a search may raise
\* parent[node] at some step of the walk from node would raise KeyError (a
\* walk of more than k links never ends, and counts as well)
RECURSIVE walk_raises(_, _, _)
walk_raises(parent, node, k) ==
    IF node = None THEN FALSE
    ELSE IF node \notin DOMAIN parent \/ k = 0 THEN TRUE
    ELSE walk_raises(parent, parent[node], k - 1)

\* the while condition holds for the locals L and the iteration would raise:
\* IndexError from a removal from an empty frontier, KeyError from
\* parent[node], distance[node] or g_score[node] for a node that is not a key
bfs_raises(G, L) ==
    /\ ~queue_is_empty(L.queue)
    /\ \/ dequeue(L.queue).raised # ""
       \/ /\ dequeue(L.queue).value = L.goal_node
          /\ walk_raises(L.parent, L.goal_node, Cardinality(DOMAIN L.parent))

dfs_raises(G, L) ==
    /\ ~stack_is_empty(L.stack)
    /\ \/ pop(L.stack).raised # ""
       \/ /\ pop(L.stack).value = L.goal_node
          /\ pop(L.stack).value \notin L.visited
          /\ walk_raises(L.parent, L.goal_node, Cardinality(DOMAIN L.parent))

\* score is distance (dijkstra) or g_score (astar)
scores_raise(G, frontier, visited, score, goal_node) ==
    /\ ~pq_is_empty(frontier)
    /\ \/ extract_min(frontier).raised # ""
       \/ LET current == extract_min(frontier).item[2]
              nbrs == get_neighbors(G, current)
          IN  /\ current \notin visited
              /\ IF current = goal_node THEN goal_node \notin DOMAIN score
                 ELSE \E i \in 1..Len(nbrs) :
                       /\ nbrs[i] \notin visited \cup {current}
                       /\ (current \notin DOMAIN score
                               \/ nbrs[i] \notin DOMAIN score)

dijkstra_raises(G, L) ==
    scores_raise(G, L.pq, L.visited, L.distance, L.goal_node)

astar_raises(G, L) ==
    scores_raise(G, L.pq, L.visited, L.g_score, L.goal_node)

\* what every search returns
IsResult(r) ==
    /\ {"found", "path", "visited", "nodes_explored"} \subseteq DOMAIN r
    /\ r.found \in BOOLEAN

\* the call that goes on from the locals L raises nothing and returns a
\* result record
RECURSIVE bfs_safe(_, _)
bfs_safe(G, L) ==
    IF L.pc = "returned" THEN IsResult(L.result)
    ELSE ~bfs_raises(G, L) /\ bfs_safe(G, bfs_step(G, L))

RECURSIVE dfs_safe(_, _)
dfs_safe(G, L) ==
    IF L.pc = "returned" THEN IsResult(L.result)
    ELSE ~dfs_raises(G, L) /\ dfs_safe(G, dfs_step(G, L))

RECURSIVE dijkstra_safe(_, _)
dijkstra_safe(G, L) ==
    IF L.pc = "returned" THEN IsResult(L.result) /\ "cost" \in DOMAIN L.result
    ELSE ~dijkstra_raises(G, L) /\ dijkstra_safe(G, dijkstra_step(G, L))

RECURSIVE astar_safe(_, _, _)
astar_safe(G, h, L) ==
    IF L.pc = "returned" THEN IsResult(L.result) /\ "cost" \in DOMAIN L.result
    ELSE ~astar_raises(G, L) /\ astar_safe(G, h, astar_step(G, h, L))

\* C39: for any graph built through add_node and add_edge and any start and
\* goal values, no search removes from an empty frontier or looks up a node
\* that is not a key of its distance or parent map: breadth_first_search,
\* depth_first_search, dijkstra and astar (with a total heuristic) raise
\* nothing and return a result record.
C39_SearchesNeverRaise ==
    /\ Doing("bfs") => bfs_safe(graph, bfs_begin(graph, start, goal))
    /\ Doing("dfs") => dfs_safe(graph, dfs_begin(graph, start, goal))
    /\ Doing("dijkstra") =>
            dijkstra_safe(graph, dijkstra_begin(graph, start, goal))
    /\ Doing("astar") =>
            \A h \in Heuristics(graph) :
                astar_safe(graph, h, astar_begin(graph, start, goal, h))

\* the four searches returned after emptying their frontiers: the goal is a
\* node that cannot be reached from start in a directed graph where start
\* has a self-loop of negative weight and an edge to a third node
C39_Witness ==
    /\ plan = <<>> /\ graph.directed
    /\ InGraph(start) /\ InGraph(goal) /\ ~Reachable(graph, start, goal)
    /\ HasEdge(graph, start, start)
    /\ EdgeCost(graph, start, start, FALSE) < 0
    /\ \A i \in 1..4 :
        /\ ~SearchResults[i].found
        /\ Len(SearchResults[i].visited) = 2

\* C40: in every state of an undirected graph reached by add_node and
\* add_edge calls, overwrites in either orientation and self-loops included,
\* the adjacency is symmetric: for all node values u and v,
\* get_edge_weight(u, v) equals get_edge_weight(v, u), and v is among the
\* neighbors of u exactly when u is among the neighbors of v.
C40_UndirectedIsSymmetric ==
    ~graph.directed =>
        \A u \in Values, v \in Values :
            /\ Graph_get_edge_weight(graph, u, v).value
                    = Graph_get_edge_weight(graph, v, u).value
            /\ Contains(Graph_get_neighbors(graph, u).value, v)
                    <=> Contains(Graph_get_neighbors(graph, v).value, u)

\* the last of three add_edge calls stored the edge of nodes 1 and 2 again,
\* from 2 to 1 and with the weight -1; node 1 had it first among its
\* neighbors, before its self-loop
C40_Witness ==
    /\ ~graph.directed /\ budget = 0
    /\ last.op = "add_edge" /\ last.args = <<2, 1, 0 - 1>>
    /\ Graph_get_neighbors(graph, 1).value = <<2, 1>>
    /\ Graph_get_edge_weight(graph, 1, 2).value = 0 - 1
    /\ Graph_get_edge_weight(graph, 1, 1).value = 0

====
